---- MODULE Spec2Model ----
(***************************************************************************)
(* AquaPredict: the feature-engineering engine (FeatureEngineer) and the   *)
(* spatial cross-validation splitter (SpatialCV), as state machines.       *)
(*                                                                         *)
(* Array cells are records [k, n, d]:                                      *)
(*   k = "num"  a finite number n (an integer, in the unit the operation   *)
(*              that produced it states);                                  *)
(*   k = "nan"  the missing value (float NaN);                             *)
(*   k = "inf"  an infinity of sign n;                                     *)
(*   any other k: a finite value that is a known function of the integers  *)
(*              n and d (a logarithm, an arctangent, a quotient, a probit) *)
(*              kept unevaluated.                                          *)
(* Python indices are kept 0-based: an array of length n is a function on  *)
(* 0..n-1.                                                                 *)
(***************************************************************************)
EXTENDS Integers, Sequences, FiniteSets, TLC

\* ---------------------------------------------------------------- bounds
MaxSamples == 3
MaxSplits == 3
PetCells == 2
MaxDim == 3
SqrtRange == 1000
MaxTimes == 11
MaxTimescale == 3
SpiPixels == 2
MaxLagTimes == 4
MaxLags == 2
LagPixels == 1
GenDim == 2
MaxStatTimes == 4
StatPixels == 1
GenTimes == 3
MaxObjects == 3
MaxFolds == 3
MaxTrains == 1
PreDim == 2
PreMaxCells == 4
MaxForecasters == 2
MaxCalls == 2

\* ------------------------------------------------------- program constants
Ra == 15
DiurnalHalfRange == 5
CellSizeDefault == 1000
TwiEpsilonDefault == 1
MinValid == 10

\* ---------------------------------------------------------------- cells
NaN == [k |-> "nan", n |-> 0, d |-> 1]
Num(x) == [k |-> "num", n |-> x, d |-> 1]
Inf(s) == [k |-> "inf", n |-> s, d |-> 1]
Sym(kind, x, y) == [k |-> kind, n |-> x, d |-> y]
IsNaN(a) == a.k = "nan"
IsInf(a) == a.k = "inf"

\* The sum of the integers f[t], t in ts.
RECURSIVE SumFn(_, _)
SumFn(f, ts) ==
    IF ts = {} THEN 0
    ELSE LET t == CHOOSE u \in ts : TRUE
         IN  f[t] + SumFn(f, ts \ {t})

VARIABLES
    \* SpatialCV.split: the generator's position, its arguments and what it
    \* has yielded so far
    cv_pc, n_splits, coordinates, cluster_labels, cv_i, folds,
    \* its random_state and feature matrix X, which run of two with equal
    \* arguments this is, what the first run was given and yielded, and the
    \* labelling KMeans has produced for each seeded input so far
    random_state, cv_X, cv_run, cv_first, kmeans_seen,
    \* compute_pet_hargreaves: the call's position, argument and result
    pet_pc, temperature, pet,
    \* the terrain operations: the call's position, which operation, its
    \* arguments, the configured epsilon and the result (or the error)
    tr_pc, tr_op, dem, flow_accumulation, cell_size, twi_epsilon, tr_out,
    \* compute_spi: the call's position, its arguments, the rolled series,
    \* the output grid being filled, the next pixel of the loop and, per
    \* pixel the loop has passed, what happened to it
    spi_pc, precipitation, timescale, distribution, precip_sum, spi, spi_pix,
    spi_log,
    \* _rolling_sum called on its own: the call's position, its arguments and
    \* the result
    roll_pc, roll_data, roll_window, roll_axis, roll_out,
    \* compute_spei: the call's position, its arguments and the result
    spei_pc, spei_precipitation, spei_temperature, spei,
    \* create_lag_features: the call's position, its arguments and the
    \* returned dictionary (keyed by the lag L of 'lag_L')
    lag_pc, lag_data, lag_periods, lag_features,
    \* generate_all_features: the call's position, the input mapping, the
    \* configured timescales and the returned dictionary
    gen_pc, data_dict, gen_config, features,
    \* compute_temporal_statistics: the call's position, its argument and the
    \* returned dictionary
    stat_pc, stat_data, stats_dict,
    \* construction: whether config.py is loaded, its default features_dir,
    \* the FeatureConfig and FeatureEngineer objects built so far and the
    \* directories that exist on disk
    cfg_pc, default_features_dir, configs, engineers, fs,
    \* AquiferClassifier: the object's position, its model type, options and
    \* estimators, the train call under way, how many have returned, the
    \* metrics last returned and the last predict call
    clf_pc, clf_model_type, clf_config, clf_model, clf_train, clf_trained, clf_result, clf_last,
    \* DataPreprocessor.fill_missing: the call's position, its arguments and
    \* the array it returned
    pre_pc, pre_data, pre_method, pre_filled,
    \* RechargeForecaster: the instances built so far, the files saved, the
    \* dictionary each loaded instance was read from, and the last call
    fc_pc, forecasters, fc_disk, fc_loaded, fc_last,
    \* A FeatureEngineer and the arrays and mapping of its caller: the arrays by
    \* reference, and the arrays, mapping and configuration as they were before
    \* the first call
    fr_pc, heap, heap_before, fr_config, fr_config_before, fr_dict, fr_dict_before, fr_op, fr_calls

cv_vars == <<cv_pc, n_splits, coordinates, cluster_labels, cv_i, folds,
             random_state, cv_X, cv_run, cv_first, kmeans_seen>>
pet_vars == <<pet_pc, temperature, pet>>
tr_vars == <<tr_pc, tr_op, dem, flow_accumulation, cell_size, twi_epsilon, tr_out>>

\* What each component's actions leave alone.
spi_vars == <<spi_pc, precipitation, timescale, distribution, precip_sum, spi,
              spi_pix, spi_log>>
roll_vars == <<roll_pc, roll_data, roll_window, roll_axis, roll_out>>
spei_vars == <<spei_pc, spei_precipitation, spei_temperature, spei>>
lag_vars == <<lag_pc, lag_data, lag_periods, lag_features>>
gen_vars == <<gen_pc, data_dict, gen_config, features>>
stat_vars == <<stat_pc, stat_data, stats_dict>>
cfg_vars == <<cfg_pc, default_features_dir, configs, engineers, fs>>
clf_vars == <<clf_pc, clf_model_type, clf_config, clf_model, clf_train, clf_trained, clf_result, clf_last>>
pre_vars == <<pre_pc, pre_data, pre_method, pre_filled>>
fc_vars == <<fc_pc, forecasters, fc_disk, fc_loaded, fc_last>>
fr_vars == <<fr_pc, heap, heap_before, fr_config, fr_config_before, fr_dict, fr_dict_before, fr_op, fr_calls>>
cv_others == <<fr_vars, fc_vars, pre_vars, clf_vars, cfg_vars, stat_vars, spei_vars, gen_vars, pet_vars, tr_vars, spi_vars, roll_vars, lag_vars>>
pet_others == <<fr_vars, fc_vars, pre_vars, clf_vars, cfg_vars, stat_vars, spei_vars, gen_vars, cv_vars, tr_vars, spi_vars, roll_vars, lag_vars>>
tr_others == <<fr_vars, fc_vars, pre_vars, clf_vars, cfg_vars, stat_vars, spei_vars, gen_vars, cv_vars, pet_vars, spi_vars, roll_vars, lag_vars>>
spi_others == <<fr_vars, fc_vars, pre_vars, clf_vars, cfg_vars, stat_vars, gen_vars, cv_vars, pet_vars, tr_vars, roll_vars, lag_vars, spei_vars>>
roll_others == <<fr_vars, fc_vars, pre_vars, clf_vars, cfg_vars, stat_vars, gen_vars, cv_vars, pet_vars, tr_vars, spi_vars, lag_vars, spei_vars>>
spei_others == <<fr_vars, fc_vars, pre_vars, clf_vars, cfg_vars, stat_vars, gen_vars, cv_vars, pet_vars, tr_vars, roll_vars, lag_vars>>
lag_others == <<fr_vars, fc_vars, pre_vars, clf_vars, cfg_vars, stat_vars, spei_vars, cv_vars, pet_vars, tr_vars, spi_vars, roll_vars, gen_vars>>
gen_others == <<fr_vars, fc_vars, pre_vars, clf_vars, cfg_vars, stat_vars, spei_vars, cv_vars, pet_vars, tr_vars, spi_vars, roll_vars, lag_vars>>
stat_others == <<fr_vars, fc_vars, pre_vars, clf_vars, cfg_vars, spei_vars, cv_vars, pet_vars, tr_vars, spi_vars, roll_vars, lag_vars, gen_vars>>
cfg_others == <<fr_vars, fc_vars, pre_vars, clf_vars, cv_vars, pet_vars, tr_vars, spi_vars, roll_vars, spei_vars, lag_vars, gen_vars, stat_vars>>
clf_others == <<fr_vars, fc_vars, pre_vars, cv_vars, pet_vars, tr_vars, spi_vars, roll_vars, spei_vars, lag_vars, gen_vars, stat_vars, cfg_vars>>
pre_others == <<fr_vars, fc_vars, cv_vars, pet_vars, tr_vars, spi_vars, roll_vars, spei_vars, lag_vars, gen_vars, stat_vars, cfg_vars, clf_vars>>
fc_others == <<fr_vars, cv_vars, pet_vars, tr_vars, spi_vars, roll_vars, spei_vars, lag_vars, gen_vars, stat_vars, cfg_vars, clf_vars, pre_vars>>
fr_others == <<cv_vars, pet_vars, tr_vars, spi_vars, roll_vars, spei_vars, lag_vars, gen_vars, stat_vars, cfg_vars, clf_vars, pre_vars, fc_vars>>

\* The library is synchronous: a call starts when no other is under way. A
\* behaviour follows one component from its start.
AllIdle ==
    /\ cv_pc = "idle" /\ pet_pc = "idle" /\ tr_pc = "idle" /\ spi_pc = "idle"
    /\ roll_pc = "idle" /\ spei_pc = "idle" /\ lag_pc = "idle" /\ gen_pc = "idle"
    /\ stat_pc = "idle"
    /\ cfg_pc = "idle"
    /\ clf_pc = "idle"
    /\ pre_pc = "idle"
    /\ fc_pc = "idle"
    /\ fr_pc = "idle"

\* ================================================================ SpatialCV
\* Sample coordinates (lon, lat) are drawn from three points.
CoordSet == {<<0, 0>>, <<0, 1>>, <<1, 1>>}

NSamples(coords) == Cardinality(DOMAIN coords)

\* KMeans(n_clusters = k).fit_predict(coordinates): one label in 0..k-1 per
\* sample; samples at the same place are nearest to the same centre. Which
\* labelling comes out depends on the seeded initialisation, so every such
\* labelling is allowed.
KMeansLabelings(coords, k) ==
    { l \in [DOMAIN coords -> 0 .. (k - 1)] :
        \A a, b \in DOMAIN coords : coords[a] = coords[b] => l[a] = l[b] }

\* random_state = self.random_state (line 40): what KMeans is seeded with.
KMeansSeedNone(seed) == [seeded |-> FALSE, seed |-> 0]
KMeansSeed(seed) == [seeded |-> TRUE, seed |-> seed]

\* The labellings one fit can return: with an integer seed the fit is a
\* function of its input, so an input seen before gives the labelling it
\* gave then; unseeded, every fit draws afresh.
KMeansFit(coords, k, rs, seen) ==
    IF rs.seeded /\ <<coords, k, rs.seed>> \in DOMAIN seen
    THEN {seen[<<coords, k, rs.seed>>]}
    ELSE KMeansLabelings(coords, k)

\* The fits seen, after one more.
Remember(seen, coords, k, rs, l) ==
    IF rs.seeded
    THEN [x \in (DOMAIN seen) \cup {<<coords, k, rs.seed>>} |->
            IF x = <<coords, k, rs.seed>> THEN l ELSE seen[x]]
    ELSE seen

\* The seeds and the feature matrices a caller passes.
SeedSet == {0, 42}
XSet == {"X_a", "X_b"}

\* KMeans refuses n_clusters < 1 and fewer samples than clusters.
KMeansRaises(coords, k) == k < 1 \/ NSamples(coords) < k

\* np.where(mask)[0]: the indices at which mask holds, ascending.
RECURSIVE WhereFrom(_, _, _)
WhereFrom(mask, i, n) ==
    IF i >= n THEN <<>>
    ELSE (IF mask[i] THEN <<i>> ELSE <<>>) \o WhereFrom(mask, i + 1, n)

Where(mask) == WhereFrom(mask, 0, Cardinality(DOMAIN mask))

\* test_mask = cluster_labels == i
TestMaskLeq(labels, i) == [j \in DOMAIN labels |-> labels[j] <= i]
TestMask(labels, i) == [j \in DOMAIN labels |-> labels[j] = i]

\* train_mask = ~test_mask
TrainMaskAll(test_mask) == [j \in DOMAIN test_mask |-> TRUE]
TrainMask(test_mask) == [j \in DOMAIN test_mask |-> ~test_mask[j]]

\* One pass of the loop body: the (train_indices, test_indices) yielded for
\* cluster i.
Fold(labels, i) ==
    [train |-> Where(TrainMask(TestMask(labels, i))),
     test |-> Where(TestMask(labels, i))]

CvInit ==
    /\ cv_pc = "idle"
    /\ n_splits = 0
    /\ coordinates = <<>>
    /\ cluster_labels = <<>>
    /\ cv_i = 0
    /\ folds = <<>>
    /\ random_state = 42
    /\ cv_X = "X_a"
    /\ cv_run = 1
    /\ cv_first = [X |-> "X_a", folds |-> <<>>]
    /\ kmeans_seen = [x \in {} |-> <<>>]

\* SpatialCV(n_splits = k, random_state = seed).split(X, coordinates):
\* creates the generator; no line of the body has run yet.
CvSplit ==
    /\ AllIdle
    /\ \E n \in 0 .. MaxSamples, k \in 0 .. MaxSplits, seed \in SeedSet, X \in XSet :
         \E c \in [0 .. (n - 1) -> CoordSet] :
            /\ n_splits' = k
            /\ coordinates' = c
            /\ random_state' = seed
            /\ cv_X' = X
    /\ cv_pc' = "created"
    /\ UNCHANGED <<cluster_labels, cv_i, folds, cv_run, cv_first, kmeans_seen>>
    /\ UNCHANGED cv_others

\* A second SpatialCV with the same n_splits and random_state, split over
\* the same coordinates and any X, once the first generator is exhausted.
CvSplitAgain ==
    /\ cv_pc = "done"
    /\ cv_run = 1
    /\ \E X \in XSet : cv_X' = X
    /\ cv_first' = [X |-> cv_X, folds |-> folds]
    /\ cv_run' = 2
    /\ cluster_labels' = <<>>
    /\ cv_i' = 0
    /\ folds' = <<>>
    /\ cv_pc' = "created"
    /\ UNCHANGED <<n_splits, coordinates, random_state, kmeans_seen>>
    /\ UNCHANGED cv_others

\* The first next(): the clustering, then the loop up to its first yield.
CvNextFit ==
    /\ cv_pc = "created"
    /\ IF KMeansRaises(coordinates, n_splits)
       THEN /\ cv_pc' = "raised"
            /\ UNCHANGED <<cluster_labels, cv_i, folds, kmeans_seen>>
       ELSE \E l \in KMeansFit(coordinates, n_splits, KMeansSeed(random_state), kmeans_seen) :
            /\ cluster_labels' = l
            /\ cv_i' = 0
            /\ folds' = <<Fold(l, 0)>>
            /\ kmeans_seen' = Remember(kmeans_seen, coordinates, n_splits,
                                       KMeansSeed(random_state), l)
            /\ cv_pc' = "yielded"
    /\ UNCHANGED <<n_splits, coordinates, random_state, cv_X, cv_run, cv_first>>
    /\ UNCHANGED cv_others

\* A later next() while the loop has clusters left: the next yield.
CvNextYield ==
    /\ cv_pc = "yielded"
    /\ cv_i + 1 < n_splits
    /\ cv_i' = cv_i + 1
    /\ folds' = Append(folds, Fold(cluster_labels, cv_i + 1))
    /\ UNCHANGED <<cv_pc, n_splits, coordinates, cluster_labels>>
    /\ UNCHANGED <<random_state, cv_X, cv_run, cv_first, kmeans_seen>>
    /\ UNCHANGED cv_others

\* The next() after the last cluster: the loop ends, the generator is
\* exhausted.
CvNextStop ==
    /\ cv_pc = "yielded"
    /\ cv_i + 1 >= n_splits
    /\ cv_pc' = "done"
    /\ UNCHANGED <<n_splits, coordinates, cluster_labels, cv_i, folds>>
    /\ UNCHANGED <<random_state, cv_X, cv_run, cv_first, kmeans_seen>>
    /\ UNCHANGED cv_others

CvNext == CvSplit \/ CvNextFit \/ CvNextYield \/ CvNextStop \/ CvSplitAgain

\* ================================================================ PET
\* Temperatures are whole degrees; a grid is flattened to cells 0..PetCells-1.
TempSet == {-20, 0, 25}
PetGrids == [0 .. (PetCells - 1) -> TempSet]

\* The largest r with r * r <= x.
ISqrt(x) == CHOOSE r \in 0 .. SqrtRange : r * r <= x /\ x < (r + 1) * (r + 1)

\* np.sqrt of d degrees, in hundredths: NaN for a negative argument.
SqrtCell(d) == IF d < 0 THEN NaN ELSE Num(ISqrt(d * 10000))

\* 0.0023 * (t_mean + 17.8) * np.sqrt(t_max - t_min) * ra, in units of 1e-7
\* mm/day: 23e-4 * (10 t + 178)e-1 * (sqrt)e-2 * ra.
HargreavesCell(t_mean, t_max, t_min) ==
    LET s == SqrtCell(t_max - t_min)
    IN  IF IsNaN(s) THEN NaN
        ELSE Num(23 * (10 * t_mean + 178) * s.n * Ra)

\* np.maximum(x, 0): NaN propagates.
Maximum0(a) == IF IsNaN(a) THEN NaN ELSE IF a.n < 0 THEN Num(0) ELSE a

\* The body of compute_pet_hargreaves from the three temperature grids on.
PetOf(t_mean, t_max, t_min) ==
    [c \in DOMAIN t_mean |-> Maximum0(HargreavesCell(t_mean[c], t_max[c], t_min[c]))]

PetInit ==
    /\ pet_pc = "idle"
    /\ temperature = <<>>
    /\ pet = <<>>

\* compute_pet_hargreaves(temperature) with one mean-temperature array:
\* t_max and t_min are taken 5 degrees either side of it.
PetCallArray ==
    /\ AllIdle
    /\ \E t \in PetGrids :
        /\ temperature' = [kind |-> "array", mean |-> t]
        /\ pet' = PetOf(t, [c \in DOMAIN t |-> t[c] + DiurnalHalfRange],
                           [c \in DOMAIN t |-> t[c] - DiurnalHalfRange])
    /\ pet_pc' = "returned"
    /\ UNCHANGED pet_others

\* compute_pet_hargreaves(temperature) with a mapping mean / max / min.
PetCallDict ==
    /\ AllIdle
    /\ \E tm \in PetGrids, tx \in PetGrids, tn \in PetGrids :
        /\ temperature' = [kind |-> "dict", mean |-> tm, max |-> tx, min |-> tn]
        /\ pet' = PetOf(tm, tx, tn)
    /\ pet_pc' = "returned"
    /\ UNCHANGED pet_others

PetNext == PetCallArray \/ PetCallDict

\* ================================================================ terrain
\* A grid is [rows, cols, v]: v maps <<i, j>>, i in 0..rows-1 and j in
\* 0..cols-1, to a cell (an integer for an input grid).
Cells(r, c) == (0 .. (r - 1)) \X (0 .. (c - 1))
Grid(r, c, f(_, _)) == [rows |-> r, cols |-> c, v |-> [x \in Cells(r, c) |-> f(x[1], x[2])]]
SameShape(g, h) == g.rows = h.rows /\ g.cols = h.cols
NoGrid == [rows |-> 0, cols |-> 0, v |-> <<>>]

\* Elevation grids: flat, tilted along either axis, a bowl and a saddle.
DemKinds == {"flat", "tilt_x", "tilt_y", "bowl", "saddle"}
Elevation(kind, i, j) ==
    1000 +
    CASE kind = "flat" -> 0
      [] kind = "tilt_x" -> j
      [] kind = "tilt_y" -> i
      [] kind = "bowl" -> i * i + j * j
      [] kind = "saddle" -> i * j
DemOf(kind, r, c) == LET f(i, j) == Elevation(kind, i, j) IN Grid(r, c, f)
IsFlat(g) == \A x, y \in DOMAIN g.v : g.v[x] = g.v[y]

\* Flow-accumulation grids hold one value everywhere.
FaSet == {-1, 0, 3}
FaOf(val, r, c) == LET f(i, j) == val IN Grid(r, c, f)

\* twi_epsilon in thousandths (the default 0.001 is 1).
EpsSet == {0, TwiEpsilonDefault, 10}
CellSizeSet == {1, CellSizeDefault}

\* np.gradient(f, h) along the rows (axis 0), times 2h: central differences
\* inside, one-sided first-order differences at the two edges.
GradRows(g) ==
    LET f(i, j) ==
          IF i = 0 THEN 2 * (g.v[<<1, j>>] - g.v[<<0, j>>])
          ELSE IF i = g.rows - 1
               THEN 2 * (g.v[<<i, j>>] - g.v[<<i - 1, j>>])
               ELSE g.v[<<i + 1, j>>] - g.v[<<i - 1, j>>]
    IN  Grid(g.rows, g.cols, f)

\* The same along the columns (axis 1).
GradCols(g) ==
    LET f(i, j) ==
          IF j = 0 THEN 2 * (g.v[<<i, 1>>] - g.v[<<i, 0>>])
          ELSE IF j = g.cols - 1
               THEN 2 * (g.v[<<i, j>>] - g.v[<<i, j - 1>>])
               ELSE g.v[<<i, j + 1>>] - g.v[<<i, j - 1>>]
    IN  Grid(g.rows, g.cols, f)

\* np.gradient needs two elements along every axis (edge_order + 1) and
\* raises ValueError otherwise.
GradientRaises(g) == g.rows < 2 \/ g.cols < 2

\* dx**2 + dy**2, times (2h)^2.
SlopeSq(dy, dx, x) == dx.v[x] * dx.v[x] + dy.v[x] * dy.v[x]

Sign(a) == IF a > 0 THEN 1 ELSE IF a < 0 THEN -1 ELSE 0

\* np.degrees(np.arctan(np.sqrt(p))): 0 where the gradient vanishes, else
\* the arctangent kept unevaluated.
SlopeCell(p) == IF p = 0 THEN Num(0) ELSE Sym("atan_deg", p, 1)

\* (np.degrees(np.arctan2(-dy, dx)) + 360) % 360: fixed by the signs of the
\* two arguments here; arctan2(-0.0, 0.0) is -0.0, which gives 0.
AspectCell(dyv, dxv) ==
    IF dyv = 0 /\ dxv = 0 THEN Num(0)
    ELSE Sym("atan2_deg", Sign(-dyv), Sign(dxv))

\* A float quotient num / den where den is zero exactly when den_zero:
\* 0/0 is NaN, x/0 an infinity.
Quotient(kind, num, den, den_zero) ==
    IF den_zero THEN (IF num = 0 THEN NaN ELSE Inf(Sign(num)))
    ELSE IF num = 0 THEN Num(0) ELSE Sym(kind, num, den)

\* The denominator p * np.sqrt(p + 1e-10) of the profile curvature vanishes
\* where p does.
ProfileDenZero(p) == p = 0

\* The denominator p**1.5 + 1e-10 of the plan curvature never vanishes.
PlanDenZero(p) == FALSE

\* The three curvature grids of compute_curvature (lines 170-191).
CurvatureOf(g) ==
    LET dy == GradRows(g)
        dx == GradCols(g)
        dyy == GradRows(dy)
        dxy == GradRows(dx)
        dxx == GradCols(dx)
        prof(i, j) ==
          LET x == <<i, j>>
              p == SlopeSq(dy, dx, x)
          IN  Quotient("profile",
                       -(dxx.v[x] * dx.v[x] * dx.v[x]
                         + 2 * dxy.v[x] * dx.v[x] * dy.v[x]
                         + dyy.v[x] * dy.v[x] * dy.v[x]),
                       p, ProfileDenZero(p))
        plan(i, j) ==
          LET x == <<i, j>>
              p == SlopeSq(dy, dx, x)
          IN  Quotient("plan",
                       dxx.v[x] * dy.v[x] * dy.v[x]
                       - 2 * dxy.v[x] * dx.v[x] * dy.v[x]
                       + dyy.v[x] * dx.v[x] * dx.v[x],
                       p, PlanDenZero(p))
        total(i, j) == Num(dxx.v[<<i, j>>] + dyy.v[<<i, j>>])
    IN  [profile |-> Grid(g.rows, g.cols, prof),
         plan |-> Grid(g.rows, g.cols, plan),
         total |-> Grid(g.rows, g.cols, total)]

\* slope_deg and aspect_deg of compute_slope_aspect (lines 140-151).
SlopeAspectOf(g) ==
    LET dy == GradRows(g)
        dx == GradCols(g)
        s(i, j) == SlopeCell(SlopeSq(dy, dx, <<i, j>>))
        a(i, j) == AspectCell(dy.v[<<i, j>>], dx.v[<<i, j>>])
    IN  [slope |-> Grid(g.rows, g.cols, s), aspect |-> Grid(g.rows, g.cols, a)]

\* numpy broadcasting of two 2-D shapes: along each axis the lengths agree
\* or one of them is 1.
BroadcastOK(g, h) ==
    /\ g.rows = h.rows \/ g.rows = 1 \/ h.rows = 1
    /\ g.cols = h.cols \/ g.cols = 1 \/ h.cols = 1

Max(a, b) == IF a >= b THEN a ELSE b

\* The cell of g that broadcasting pairs with cell <<i, j>> of the result.
BroadcastAt(g, i, j) ==
    g.v[<<IF g.rows = 1 THEN 0 ELSE i, IF g.cols = 1 THEN 0 ELSE j>>]

\* np.log((fa + 1) / (np.tan(slope_rad) + epsilon)) at one cell; fa1 is
\* fa + 1, p the squared gradient (tan(arctan(sqrt p)) is sqrt p), eps the
\* epsilon. The denominator is 0 only on flat ground with epsilon 0.
TwiRawCell(fa1, p, eps) ==
    IF p = 0 /\ eps = 0
    THEN (IF fa1 > 0 THEN Inf(1) ELSE NaN)
    ELSE IF fa1 = 0 THEN Inf(-1)
         ELSE IF fa1 < 0 THEN NaN
              ELSE Sym("ln", fa1, p)

\* np.where(np.isinf(x), np.nan, x) at one cell.
InfToNaNKept(a) == a
InfToNaN(a) == IF IsInf(a) THEN NaN ELSE a

\* The grid compute_twi returns (lines 54-65), for shapes that broadcast.
TwiOfNoPlusOne(g, fa, eps) ==
    LET dy == GradRows(g)
        dx == GradCols(g)
        t(i, j) ==
          InfToNaN(TwiRawCell(BroadcastAt(fa, i, j),
                              SlopeSq(dy, dx, <<i, j>>), eps))
    IN  Grid(Max(g.rows, fa.rows), Max(g.cols, fa.cols), t)
TwiOf(g, fa, eps) ==
    LET dy == GradRows(g)
        dx == GradCols(g)
        t(i, j) ==
          InfToNaN(TwiRawCell(BroadcastAt(fa, i, j) + 1,
                              SlopeSq(dy, dx, <<i, j>>), eps))
    IN  Grid(Max(g.rows, fa.rows), Max(g.cols, fa.cols), t)

\* boundary = 'symm': an index one step outside 0..n-1 is mirrored back onto
\* the edge.
Reflect(i, n) == IF i < 0 THEN -1 - i ELSE IF i >= n THEN 2 * n - 1 - i ELSE i

\* compute_tpi(dem) with the default 3 x 3 window: dem minus the mean of the
\* mirrored neighbourhood, in ninths of the elevation unit.
TpiOf(g) ==
    LET nb(i, j) == {<<i + di, j + dj>> : di \in {-1, 0, 1}, dj \in {-1, 0, 1}}
        at(x) == g.v[<<Reflect(x[1], g.rows), Reflect(x[2], g.cols)>>]
        t(i, j) == Num(9 * g.v[<<i, j>>] - SumFn([x \in nb(i, j) |-> at(x)], nb(i, j)))
    IN  Grid(g.rows, g.cols, t)

TrInit ==
    /\ tr_pc = "idle"
    /\ tr_op = "none"
    /\ dem = NoGrid
    /\ flow_accumulation = NoGrid
    /\ cell_size = CellSizeDefault
    /\ twi_epsilon = TwiEpsilonDefault
    /\ tr_out = <<>>

\* compute_slope_aspect(dem, cell_size)
TrSlopeAspect ==
    /\ AllIdle
    /\ \E kind \in DemKinds, r \in 1 .. MaxDim, c \in 1 .. MaxDim, h \in CellSizeSet :
        LET g == DemOf(kind, r, c)
        IN  /\ dem' = g
            /\ cell_size' = h
            /\ IF GradientRaises(g)
               THEN tr_pc' = "raised" /\ tr_out' = "ValueError"
               ELSE tr_pc' = "returned" /\ tr_out' = SlopeAspectOf(g)
    /\ tr_op' = "slope_aspect"
    /\ UNCHANGED <<flow_accumulation, twi_epsilon>>
    /\ UNCHANGED tr_others

\* compute_curvature(dem, cell_size)
TrCurvature ==
    /\ AllIdle
    /\ \E kind \in DemKinds, r \in 1 .. MaxDim, c \in 1 .. MaxDim, h \in CellSizeSet :
        LET g == DemOf(kind, r, c)
        IN  /\ dem' = g
            /\ cell_size' = h
            /\ IF GradientRaises(g)
               THEN tr_pc' = "raised" /\ tr_out' = "ValueError"
               ELSE tr_pc' = "returned" /\ tr_out' = CurvatureOf(g)
    /\ tr_op' = "curvature"
    /\ UNCHANGED <<flow_accumulation, twi_epsilon>>
    /\ UNCHANGED tr_others

\* compute_twi(dem, flow_accumulation, cell_size) under a configured
\* twi_epsilon: the gradient first, then the broadcast arithmetic.
TrTwi ==
    /\ AllIdle
    /\ \E kind \in DemKinds, r \in 1 .. MaxDim, c \in 1 .. MaxDim, h \in CellSizeSet,
          val \in FaSet, r2 \in 1 .. MaxDim, c2 \in 1 .. MaxDim, eps \in EpsSet :
        LET g == DemOf(kind, r, c)
            fa == FaOf(val, r2, c2)
        IN  /\ dem' = g
            /\ flow_accumulation' = fa
            /\ cell_size' = h
            /\ twi_epsilon' = eps
            /\ IF GradientRaises(g) \/ ~BroadcastOK(g, fa)
               THEN tr_pc' = "raised" /\ tr_out' = "ValueError"
               ELSE tr_pc' = "returned" /\ tr_out' = [twi |-> TwiOf(g, fa, eps)]
    /\ tr_op' = "twi"
    /\ UNCHANGED tr_others

\* compute_tpi(dem)
TrTpi ==
    /\ AllIdle
    /\ \E kind \in DemKinds, r \in 1 .. MaxDim, c \in 1 .. MaxDim :
        LET g == DemOf(kind, r, c)
        IN  /\ dem' = g
            /\ tr_out' = [tpi |-> TpiOf(g)]
    /\ tr_pc' = "returned"
    /\ tr_op' = "tpi"
    /\ UNCHANGED <<flow_accumulation, cell_size, twi_epsilon>>
    /\ UNCHANGED tr_others

TrNext == TrSlopeAspect \/ TrCurvature \/ TrTwi \/ TrTpi

\* ================================================================ SPI
\* A time series is a function on 0..n_times-1; a time-series grid maps each
\* pixel (the loop's (i, j) flattened to i * n_lon + j, in loop order) to
\* its series. Precipitation values are whole millimetres.
Times == 0 .. (MaxTimes - 1)
Pixels == 0 .. (SpiPixels - 1)

\* The input series of one pixel: a value at every stride-th month for the
\* first nvalid of them (as many as there are, if fewer), missing elsewhere;
\* the values constant, rising or 0. The series with gaps are rising ones,
\* the dry series has no missing month.
Strides == {1, 2}
NValidSet == {0, 3, MinValid - 1, MaxTimes}
SeriesKinds == {"const", "ramp", "zero"}
SeriesValue(kind, t) ==
    CASE kind = "const" -> 50
      [] kind = "ramp" -> 10 * (t + 1)
      [] kind = "zero" -> 0
SeriesOf(stride, nvalid, kind) ==
    [t \in Times |->
        IF t % stride = 0 /\ (t \div stride) < nvalid
        THEN Num(SeriesValue(kind, t)) ELSE NaN]
SeriesShapes ==
    {x \in Strides \X NValidSet \X SeriesKinds :
        /\ x[1] = 2 => x[3] = "ramp"
        /\ x[3] = "zero" => (x[1] = 1 /\ x[2] = MaxTimes)}
SeriesSet == {SeriesOf(x[1], x[2], x[3]) : x \in SeriesShapes}

Valid(series) == {t \in DOMAIN series : ~IsNaN(series[t])}
AllNaNSeries(series) == [t \in DOMAIN series |-> NaN]

RECURSIVE SumOver(_, _)
SumOver(series, ts) ==
    IF ts = {} THEN 0
    ELSE LET t == CHOOSE u \in ts : TRUE
         IN  series[t].n + SumOver(series, ts \ {t})

\* DataFrame.rolling(window, min_periods = 1).sum() down one column: at each
\* time the sum of the non-missing values among the last `window`, missing
\* when there is none.
RollingSumCumulative(series, window) ==
    [t \in DOMAIN series |->
        LET win == {u \in Valid(series) : u <= t}
        IN  IF win = {} THEN NaN ELSE Num(SumOver(series, win))]
RollingSumSeries(series, window) ==
    [t \in DOMAIN series |->
        LET win == {u \in Valid(series) : u <= t /\ u > t - window}
        IN  IF win = {} THEN NaN ELSE Num(SumOver(series, win))]

\* _rolling_sum(data, window, axis = 0)
RollingSum(data, window) == [p \in DOMAIN data |-> RollingSumSeries(data[p], window)]

\* len(valid_data) < 10
TooFewOffByOne(n_valid) == n_valid < MinValid - 1
TooFew(n_valid) == n_valid < MinValid

\* valid_data[valid_data > 0]: the values the gamma fit is given.
PositiveSample(series) == {t \in Valid(series) : series[t].n > 0}

\* A sample with no spread: empty, or every value the same.
ZeroVariance(series, ts) == \A t, u \in ts : series[t].n = series[u].n

\* What the try block (lines 243-255) can do with one pixel.
\*  gamma: stats.gamma.fit starts from the sample skewness, which is NaN for
\*    a sample without spread; the optimiser then ends at NaN parameters,
\*    which the fit either reports as a FitError ("raise") or returns
\*    ("nan_params"), depending on the scipy release. On a sample with spread
\*    the fit may still fail ("raise"); when it succeeds, every value lies
\*    inside the fitted support ("interior"), or the location parameter sits
\*    at the smallest fitted value, whose CDF is then 0 ("at_min").
\*  normal (any other name): np.mean and np.std never fail; a zero standard
\*    deviation makes norm.cdf NaN everywhere ("nan_params"). Otherwise every
\*    CDF value lies strictly between 0 and 1 ("interior"), or that of the
\*    largest value, more than 8.3 standard deviations above the mean, is
\*    rounded to 1 ("at_max").
FitOutcomes(series, dist) ==
    IF dist = "gamma"
    THEN IF ZeroVariance(series, PositiveSample(series))
         THEN {"raise", "nan_params"}
         ELSE {"raise", "interior", "at_min"}
    ELSE IF ZeroVariance(series, Valid(series))
         THEN {"nan_params"}
         ELSE {"interior", "at_max"}

MinOf(series, ts) == CHOOSE t \in ts : \A u \in ts : series[t].n <= series[u].n
MaxOf(series, ts) == CHOOSE t \in ts : \A u \in ts : series[t].n >= series[u].n

\* stats.norm.ppf(cdf(pixel_data)) for an outcome that did not raise: NaN
\* where the value is missing or the parameters are NaN, -inf where the CDF
\* is 0, +inf where it is 1, the probit kept unevaluated elsewhere.
Standardize(series, dist, outcome) ==
    [t \in DOMAIN series |->
        IF IsNaN(series[t]) \/ outcome = "nan_params" THEN NaN
        ELSE IF /\ outcome = "at_min"
                /\ series[t].n <= series[MinOf(series, PositiveSample(series))].n
             THEN Inf(-1)
             ELSE IF /\ outcome = "at_max"
                     /\ series[t].n >= series[MaxOf(series, Valid(series))].n
                  THEN Inf(1)
                  ELSE Sym("probit", series[t].n, 1)]

\* except Exception: spi[:, i, j] = np.nan
ExceptBranchWholeGrid(grid, pix) == [p \in DOMAIN grid |-> AllNaNSeries(grid[p])]
ExceptBranch(grid, pix) == [grid EXCEPT ![pix] = AllNaNSeries(grid[pix])]

\* np.where(np.isinf(spi), np.nan, spi)
InfToNaNGrid(grid) == [p \in DOMAIN grid |-> [t \in DOMAIN grid[p] |-> InfToNaN(grid[p][t])]]

\* The distribution argument: the two documented names and another one.
DistributionNames == {"gamma", "normal", "lognormal"}

SpiInit ==
    /\ spi_pc = "idle"
    /\ precipitation = <<>>
    /\ timescale = 1
    /\ distribution = "gamma"
    /\ precip_sum = <<>>
    /\ spi = <<>>
    /\ spi_pix = 0
    /\ spi_log = <<>>

\* compute_spi(precipitation, timescale, distribution) down to the loop:
\* the zeroed output grid and the rolling sum (lines 213-223).
SpiCall ==
    /\ AllIdle
    /\ \E data \in [Pixels -> SeriesSet], ts \in 1 .. MaxTimescale,
          dist \in DistributionNames :
        /\ precipitation' = data
        /\ timescale' = ts
        /\ distribution' = dist
        /\ precip_sum' = IF ts > 1 THEN RollingSum(data, ts) ELSE data
        /\ spi' = [p \in Pixels |-> [t \in Times |-> Num(0)]]
    /\ spi_pix' = 0
    /\ spi_log' = [p \in {} |-> "none"]
    /\ spi_pc' = "loop"
    /\ UNCHANGED spi_others

Logged(pix, what) == [p \in (DOMAIN spi_log) \cup {pix} |-> IF p = pix THEN what ELSE spi_log[p]]

\* One pass of the pixel loop whose series is all missing (lines 231-233).
SpiPixelAllNaN ==
    /\ spi_pc = "loop"
    /\ spi_pix \in Pixels
    /\ Valid(precip_sum[spi_pix]) = {}
    /\ spi' = [spi EXCEPT ![spi_pix] = AllNaNSeries(spi[spi_pix])]
    /\ spi_log' = Logged(spi_pix, "all_nan")
    /\ spi_pix' = spi_pix + 1
    /\ UNCHANGED <<spi_pc, precipitation, timescale, distribution, precip_sum>>
    /\ UNCHANGED spi_others

\* One pass whose series has too few values to fit (lines 236-240).
SpiPixelTooFew ==
    /\ spi_pc = "loop"
    /\ spi_pix \in Pixels
    /\ Valid(precip_sum[spi_pix]) # {}
    /\ TooFew(Cardinality(Valid(precip_sum[spi_pix])))
    /\ spi' = [spi EXCEPT ![spi_pix] = AllNaNSeries(spi[spi_pix])]
    /\ spi_log' = Logged(spi_pix, "too_few")
    /\ spi_pix' = spi_pix + 1
    /\ UNCHANGED <<spi_pc, precipitation, timescale, distribution, precip_sum>>
    /\ UNCHANGED spi_others

\* One pass that reaches the try block (lines 242-258): the fit and the
\* transform, or the except branch.
SpiPixelFit ==
    /\ spi_pc = "loop"
    /\ spi_pix \in Pixels
    /\ Valid(precip_sum[spi_pix]) # {}
    /\ ~TooFew(Cardinality(Valid(precip_sum[spi_pix])))
    /\ \E outcome \in FitOutcomes(precip_sum[spi_pix], distribution) :
        /\ spi' = IF outcome = "raise"
                  THEN ExceptBranch(spi, spi_pix)
                  ELSE [spi EXCEPT ![spi_pix] =
                          Standardize(precip_sum[spi_pix], distribution, outcome)]
        /\ spi_log' = Logged(spi_pix, outcome)
    /\ spi_pix' = spi_pix + 1
    /\ UNCHANGED <<spi_pc, precipitation, timescale, distribution, precip_sum>>
    /\ UNCHANGED spi_others

\* After the loop: infinities become missing and the grid is returned
\* (lines 260-264).
SpiReturn ==
    /\ spi_pc = "loop"
    /\ spi_pix \notin Pixels
    /\ spi' = InfToNaNGrid(spi)
    /\ spi_pc' = "returned"
    /\ UNCHANGED <<precipitation, timescale, distribution, precip_sum, spi_pix, spi_log>>
    /\ UNCHANGED spi_others

\* ---- compute_spei
\* precipitation - pet at one cell: precipitation in whole millimetres, pet
\* in units of 1e-7 mm, the difference in units of 1e-5 mm.
WaterBalanceCell(p, e) ==
    IF IsNaN(p) \/ IsNaN(e) THEN NaN ELSE Num(p.n * 100000 - (e.n \div 100))

\* compute_pet_hargreaves(temperature) on one pixel's temperature series
\* (the array branch, lines 323-336).
PetSeries(temp) ==
    PetOf(temp, [t \in DOMAIN temp |-> temp[t] + DiurnalHalfRange],
                [t \in DOMAIN temp |-> temp[t] - DiurnalHalfRange])

WaterBalance(precip, temp) ==
    [p \in DOMAIN precip |->
        [t \in DOMAIN precip[p] |-> WaterBalanceCell(precip[p][t], PetSeries(temp[p])[t])]]

SpeiInit ==
    /\ spei_pc = "idle"
    /\ spei_precipitation = <<>>
    /\ spei_temperature = <<>>
    /\ spei = <<>>

\* compute_spei(precipitation, temperature, timescale) down to the pixel
\* loop of the compute_spi it calls on the water balance with
\* distribution = 'normal' (lines 288-294, then 213-223). Every pixel has
\* the same precipitation series and its own temperature, constant in time.
SpeiCall ==
    /\ AllIdle
    /\ \E series \in SeriesSet, temps \in [Pixels -> TempSet], ts \in 1 .. MaxTimescale :
        LET precip == [p \in Pixels |-> series]
            temp == [p \in Pixels |-> [t \in Times |-> temps[p]]]
            water_balance == WaterBalance(precip, temp)
        IN  /\ spei_precipitation' = precip
            /\ spei_temperature' = temp
            /\ precipitation' = water_balance
            /\ timescale' = ts
            /\ precip_sum' = IF ts > 1 THEN RollingSum(water_balance, ts) ELSE water_balance
    /\ distribution' = "normal"
    /\ spi' = [p \in Pixels |-> [t \in Times |-> Num(0)]]
    /\ spi_pix' = 0
    /\ spi_log' = [p \in {} |-> "none"]
    /\ spi_pc' = "loop"
    /\ spei_pc' = "in_spi"
    /\ UNCHANGED spei
    /\ UNCHANGED spei_others

\* compute_spi has returned to compute_spei, which returns its grid (lines
\* 294-297).
SpeiReturn ==
    /\ spei_pc = "in_spi"
    /\ spi_pc = "returned"
    /\ spei' = spi
    /\ spei_pc' = "returned"
    /\ UNCHANGED <<spei_precipitation, spei_temperature>>
    /\ UNCHANGED spi_vars
    /\ UNCHANGED spei_others

RollInit ==
    /\ roll_pc = "idle"
    /\ roll_data = <<>>
    /\ roll_window = 1
    /\ roll_axis = 0
    /\ roll_out = <<>>

\* _rolling_sum(data, window, axis) called on its own: only axis 0 is
\* implemented (lines 461-468).
RollingSumCall ==
    /\ AllIdle
    /\ \E data \in [Pixels -> SeriesSet], w \in 1 .. MaxTimescale, axis \in {0, 1} :
        /\ roll_data' = data
        /\ roll_window' = w
        /\ roll_axis' = axis
        /\ IF axis = 0
           THEN roll_pc' = "returned" /\ roll_out' = RollingSum(data, w)
           ELSE roll_pc' = "raised" /\ roll_out' = <<>>
    /\ UNCHANGED roll_others

SpiNext ==
    \/ SpiCall \/ SpiPixelAllNaN \/ SpiPixelTooFew \/ SpiPixelFit \/ SpiReturn
    \/ RollingSumCall \/ SpeiCall \/ SpeiReturn

\* ================================================================ lag features
\* config.lag_periods as FeatureConfig.__post_init__ leaves it.
DefaultLagPeriods == <<1, 3, 6, 12>>

\* The lag_periods argument: None (given = FALSE) or a list of integers.
NoneLags == [given |-> FALSE, list |-> <<>>]
ListOfLags(l) == [given |-> TRUE, list |-> l]
LagSet == 0 .. (MaxLagTimes + 1)
LagLists == UNION {[1 .. n -> LagSet] : n \in 0 .. MaxLags}
LagArgs == {NoneLags} \cup {ListOfLags(l) : l \in LagLists}

\* The input grid [T, R, C], pixel by pixel: a different value at every time
\* of every pixel, and at most one time at which every pixel is missing.
LagPixelSet == 0 .. (LagPixels - 1)
LagSeries(n_times, gap, p) ==
    [t \in 0 .. (n_times - 1) |-> IF t = gap THEN NaN ELSE Num(100 * p + 10 * (t + 1))]
LagData(n_times, gap) == [p \in LagPixelSet |-> LagSeries(n_times, gap, p)]
NTimes(data) == Cardinality(DOMAIN data[0])

\* lag_periods or self.config.lag_periods: None and the empty list are both
\* falsy.
OrDefault(arg, default) ==
    IF arg.given /\ Len(arg.list) > 0 THEN arg.list ELSE default

\* np.roll(series, shift) along time: the entry at i comes from i - shift,
\* counted round the end of the series.
Roll(series, shift) ==
    LET n == Cardinality(DOMAIN series)
    IN  [i \in DOMAIN series |-> series[(i - shift) % n]]

\* series[:lag] = np.nan: the slice stops at lag, counted from the end when
\* lag is negative.
BlankHeadSkipped(series, lag) == series
BlankHead(series, lag) ==
    LET n == Cardinality(DOMAIN series)
        stop == IF lag >= 0 THEN lag ELSE n + lag
    IN  [i \in DOMAIN series |-> IF i < stop THEN NaN ELSE series[i]]

\* The loop of lines 433-437 over the list `lags`: one entry per lag below
\* the series length (a lag listed twice is written twice, the same grid).
LagFeaturesOf(data, lags) ==
    [L \in {m \in {lags[x] : x \in DOMAIN lags} : m < NTimes(data)} |->
        [p \in DOMAIN data |-> BlankHead(Roll(data[p], L), L)]]

LagInit ==
    /\ lag_pc = "idle"
    /\ lag_data = <<>>
    /\ lag_periods = NoneLags
    /\ lag_features = <<>>

\* create_lag_features(data, lag_periods)
CreateLagFeatures ==
    /\ AllIdle
    /\ \E n_times \in 1 .. MaxLagTimes, gap \in -1 .. (MaxLagTimes - 1), arg \in LagArgs :
        /\ gap < n_times
        /\ lag_data' = LagData(n_times, gap)
        /\ lag_periods' = arg
        /\ lag_features' = LagFeaturesOf(LagData(n_times, gap), OrDefault(arg, DefaultLagPeriods))
    /\ lag_pc' = "returned"
    /\ UNCHANGED lag_others

LagNext == CreateLagFeatures

\* ================================================================ all features
\* config.spi_timescales and config.spei_timescales as
\* FeatureConfig.__post_init__ leaves them, and two other configurations.
DefaultTimescales == <<1, 3, 6, 12>>
TimescaleLists == {DefaultTimescales, <<3>>, <<>>}

\* The keys generate_all_features looks for, and one it does not.
RecognizedKeys == {"dem", "flow_accumulation", "precipitation", "temperature"}
InputKeys == RecognizedKeys \cup {"landcover"}

\* A climate array [time, lat, lon] is kept by its number of time steps
\* (lat and lon the same for all); 0 stands for a key that is absent.
ClimateTimes == 1 .. GenTimes

\* precipitation - pet (lines 291 and 543) broadcasts along time when the
\* lengths agree or one of them is 1.
ClimateBroadcastOK(n_precip, n_temp) == n_precip = n_temp \/ n_precip = 1 \/ n_temp = 1

\* A feature name: 'slope' is Name("slope"), 'spi_3' is Timed("spi", 3).
Name(b) == [base |-> b, t |-> 0]
Timed(b, t) == [base |-> b, t |-> t]
\* A feature value, kept as the call that produced it.
By(op, arg) == [by |-> op, arg |-> arg]

\* The conditions of lines 494, 510, 518 and 529.
HasDem(d) == "dem" \in d.keys
HasFlow(d) == "dem" \in d.keys /\ "flow_accumulation" \in d.keys
HasPrecip(d) == "precipitation" \in d.keys
HasTempOnly(d) == "temperature" \in d.keys
HasTempAndPrecip(d) == "temperature" \in d.keys /\ "precipitation" \in d.keys

\* The entries each block of generate_all_features writes.
TerrainNames ==
    {Name("slope"), Name("aspect"), Name("tpi"), Name("curvature_profile"),
     Name("curvature_plan"), Name("curvature_total")}
TerrainFeature(nm) ==
    CASE nm.base \in {"slope", "aspect"} -> By("compute_slope_aspect", 0)
      [] nm.base = "tpi" -> By("compute_tpi", 0)
      [] OTHER -> By("compute_curvature", 0)
StatNames ==
    {Name("precip_mean"), Name("precip_std"), Name("precip_min"), Name("precip_max"),
     Name("precip_trend")}
TimedNames(b, list) == {Timed(b, list[x]) : x \in DOMAIN list}
BalanceNames == {Name("pet"), Name("water_balance")}

\* The dictionary built by lines 491-543 when no call raises.
FeaturesOf(d, cfg) ==
    LET terrain == IF HasDem(d) THEN TerrainNames ELSE {}
        twi == IF HasFlow(d) THEN {Name("twi")} ELSE {}
        spis == IF HasPrecip(d) THEN TimedNames("spi", cfg.spi_timescales) ELSE {}
        stats == IF HasPrecip(d) THEN StatNames ELSE {}
        speis == IF HasTempAndPrecip(d) THEN TimedNames("spei", cfg.spei_timescales) ELSE {}
        balance == IF HasTempAndPrecip(d) THEN BalanceNames ELSE {}
    IN  [nm \in terrain \cup twi \cup spis \cup stats \cup speis \cup balance |->
            CASE nm \in terrain -> TerrainFeature(nm)
              [] nm \in twi -> By("compute_twi", 0)
              [] nm \in spis -> By("compute_spi", nm.t)
              [] nm \in stats -> By("compute_temporal_statistics", 0)
              [] nm \in speis -> By("compute_spei", nm.t)
              [] nm = Name("pet") -> By("compute_pet_hargreaves", 0)
              [] OTHER -> By("subtract", 0)]

\* A call made on the way raises: np.gradient on a dem with a single row or
\* column, the arithmetic of compute_twi on shapes that do not broadcast,
\* precipitation - pet on lengths that do not broadcast.
GenRaises(d) ==
    \/ HasDem(d) /\ GradientRaises(d.dem)
    \/ HasFlow(d) /\ ~BroadcastOK(d.dem, d.flow_accumulation)
    \/ HasTempAndPrecip(d) /\ ~ClimateBroadcastOK(d.precipitation, d.temperature)

NoData == [keys |-> {}, dem |-> NoGrid, flow_accumulation |-> NoGrid,
           precipitation |-> 0, temperature |-> 0]

GenInit ==
    /\ gen_pc = "idle"
    /\ data_dict = NoData
    /\ gen_config = [spi_timescales |-> DefaultTimescales, spei_timescales |-> DefaultTimescales]
    /\ features = <<>>

\* generate_all_features(data_dict, cell_size) under a configuration
GenerateAllFeatures ==
    /\ AllIdle
    /\ \E keys \in SUBSET InputKeys, kind \in {"flat", "tilt_x"},
          r \in 1 .. GenDim, c \in 1 .. GenDim, r2 \in 1 .. GenDim, c2 \in 1 .. GenDim,
          np \in ClimateTimes, nt \in ClimateTimes,
          spi_ts \in TimescaleLists, spei_ts \in TimescaleLists :
        LET d == [keys |-> keys,
                  dem |-> IF "dem" \in keys THEN DemOf(kind, r, c) ELSE NoGrid,
                  flow_accumulation |->
                      IF "flow_accumulation" \in keys THEN FaOf(0, r2, c2) ELSE NoGrid,
                  precipitation |-> IF "precipitation" \in keys THEN np ELSE 0,
                  temperature |-> IF "temperature" \in keys THEN nt ELSE 0]
            cfg == [spi_timescales |-> spi_ts, spei_timescales |-> spei_ts]
        IN  /\ data_dict' = d
            /\ gen_config' = cfg
            /\ IF GenRaises(d)
               THEN gen_pc' = "raised" /\ features' = <<>>
               ELSE gen_pc' = "returned" /\ features' = FeaturesOf(d, cfg)
    /\ UNCHANGED gen_others

GenNext == GenerateAllFeatures

\* ================================================================ temporal statistics
\* The input grid [T, R, C], pixel by pixel; each entry is missing or one of
\* two values.
StatPixelSet == 0 .. (StatPixels - 1)
StatCells == {NaN, Num(0), Num(3)}
StatGrids(n_times) == [StatPixelSet -> [0 .. (n_times - 1) -> StatCells]]

HasNaN(series) == \E t \in DOMAIN series : IsNaN(series[t])

\* np.mean(data, axis=0) at one pixel: NaN as soon as one entry is NaN, else
\* the quotient sum / count, kept unevaluated.
NpMean(series) ==
    IF HasNaN(series) THEN NaN
    ELSE Sym("ratio", SumOver(series, DOMAIN series), Cardinality(DOMAIN series))

\* np.std(data, axis=0): the square root of (n * sum y^2 - (sum y)^2) / n^2,
\* kept unevaluated.
NpStd(series) ==
    IF HasNaN(series) THEN NaN
    ELSE LET n == Cardinality(DOMAIN series)
             sy == SumOver(series, DOMAIN series)
             syy == SumFn([t \in DOMAIN series |-> series[t].n * series[t].n], DOMAIN series)
         IN  Sym("sqrt_ratio", n * syy - sy * sy, n * n)

\* np.min and np.max (axis=0): NaN as soon as one entry is NaN.
NpMin(series) ==
    IF HasNaN(series) THEN NaN ELSE series[MinOf(series, DOMAIN series)]
NpMax(series) ==
    IF HasNaN(series) THEN NaN ELSE series[MaxOf(series, DOMAIN series)]

\* valid_mask.sum() > 2
EnoughForTrendTwo(n_valid) == n_valid > 1
EnoughForTrend(n_valid) == n_valid > 2

\* np.polyfit(time_index[valid_mask], data[valid_mask], 1)[0]: the slope of
\* the least-squares line, (n sum ty - sum t sum y) / (n sum t^2 - (sum t)^2),
\* kept as that quotient.
PolyfitSlope(series) ==
    LET v == Valid(series)
        n == Cardinality(v)
        st == SumFn([t \in v |-> t], v)
        sy == SumOver(series, v)
        sty == SumFn([t \in v |-> t * series[t].n], v)
        stt == SumFn([t \in v |-> t * t], v)
    IN  Sym("ratio", n * sty - st * sy, n * stt - st * st)

\* One pass of the loop of lines 400-407.
Trend(series) ==
    IF EnoughForTrend(Cardinality(Valid(series))) THEN PolyfitSlope(series) ELSE NaN

\* The dictionary of lines 385-409.
TemporalStatisticsOf(data) ==
    [mean |-> [p \in DOMAIN data |-> NpMean(data[p])],
     std |-> [p \in DOMAIN data |-> NpStd(data[p])],
     min |-> [p \in DOMAIN data |-> NpMin(data[p])],
     max |-> [p \in DOMAIN data |-> NpMax(data[p])],
     trend |-> [p \in DOMAIN data |-> Trend(data[p])]]

StatInit ==
    /\ stat_pc = "idle"
    /\ stat_data = <<>>
    /\ stats_dict = <<>>

\* compute_temporal_statistics(data)
ComputeTemporalStatistics ==
    /\ AllIdle
    /\ \E n_times \in 1 .. MaxStatTimes : \E data \in StatGrids(n_times) :
        /\ stat_data' = data
        /\ stats_dict' = TemporalStatisticsOf(data)
    /\ stat_pc' = "returned"
    /\ UNCHANGED stat_others

StatNext == ComputeTemporalStatistics


\* ================================================================ construction
\* Directories are paths, sequences of names; the file system is the set of
\* directories that exist.
Prefixes(path) == {SubSeq(path, 1, n) : n \in 1 .. Len(path)}

\* os.makedirs(path, exist_ok=True): the directory and every missing parent.
Makedirs(dirs, path) == dirs \cup Prefixes(path)

\* os.getenv("DATA_DIR", "./data") when the config module is loaded: the
\* default, or what the environment names.
DataDirEnv == {<<"data">>, <<"srv">>}
\* A features_dir passed to FeatureConfig explicitly.
ExplicitDirs == {<<"out">>, <<"out", "f">>}

Objects == Len(configs) + Len(engineers)

CfgInit ==
    /\ cfg_pc = "idle"
    /\ default_features_dir = <<>>
    /\ configs = <<>>
    /\ engineers = <<>>
    /\ fs = {}

\* Loading config.py: the class attributes data_dir and features_dir are
\* computed once (lines 16-18).
LoadConfigModule ==
    /\ AllIdle
    /\ \E data_dir \in DataDirEnv : default_features_dir' = data_dir \o <<"features">>
    /\ cfg_pc' = "loaded"
    /\ UNCHANGED <<configs, engineers, fs>>
    /\ UNCHANGED cfg_others

\* FeatureConfig(...) built by the caller: __post_init__ fills the defaults
\* and creates features_dir (line 69).
NewFeatureConfig ==
    /\ cfg_pc = "loaded"
    /\ Objects < MaxObjects
    /\ \E features_dir \in {default_features_dir} \cup ExplicitDirs :
        /\ configs' = Append(configs, [features_dir |-> features_dir])
        /\ fs' = Makedirs(fs, features_dir)
    /\ UNCHANGED <<cfg_pc, default_features_dir, engineers>>
    /\ UNCHANGED cfg_others

\* FeatureEngineer(config): self.config = config or FeatureConfig(); given 0
\* stands for no config passed, another number for the caller's config of
\* that index.
NewFeatureEngineer ==
    /\ cfg_pc = "loaded"
    /\ Objects < MaxObjects
    /\ \E given \in 0 .. Len(configs) :
        IF given = 0
        THEN /\ engineers' = Append(engineers, [features_dir |-> default_features_dir])
             /\ fs' = Makedirs(fs, default_features_dir)
        ELSE /\ engineers' = Append(engineers, configs[given])
             /\ fs' = fs
    /\ UNCHANGED <<cfg_pc, default_features_dir, configs>>
    /\ UNCHANGED cfg_others

CfgNext == LoadConfigModule \/ NewFeatureConfig \/ NewFeatureEngineer


\* ================================================================ AquiferClassifier
\* The model types a caller may name: the three supported and another one.
ModelTypes == {"random_forest", "xgboost", "ensemble", "svm"}
SupportedTypes == {"random_forest", "xgboost", "ensemble"}

\* The ModelConfig options train reads.
ClfConfigs ==
    [use_spatial_cv : BOOLEAN, cv_folds : 2 .. MaxFolds, n_spatial_clusters : 2 .. MaxFolds]

\* self.model after _initialize_model: one estimator, or the dictionary of
\* two; each is unfitted, fitted on the training part of a fold, or fitted
\* on all of (X, y).
EstimatorsOf(model_type) == IF model_type = "ensemble" THEN {"rf", "xgb"} ELSE {"model"}
NoModel == [is_none |-> TRUE, fits |-> [e \in {} |-> "unfitted"]]
InitializeModel(model_type) ==
    [is_none |-> FALSE, fits |-> [e \in EstimatorsOf(model_type) |-> "unfitted"]]
FitAll(model, on) == [model EXCEPT !.fits = [e \in DOMAIN model.fits |-> on]]

\* The condition of line 94.
UseSpatial(cfg, has_coords) == cfg.use_spatial_cv /\ has_coords

\* n_splits of the SpatialCV built at line 96.
SpatialSplits(cfg) == cfg.cv_folds

\* cv_scores: whether the name was ever bound, and how many scores it holds.
NoScores == [defined |-> FALSE, n |-> 0]
Scores(n) == [defined |-> TRUE, n |-> n]

\* np.mean(cv_scores) if 'cv_scores' in locals() else None (lines 139-140).
MetricNone(scores) == "None"
Metric(scores) == IF scores.defined THEN "number" ELSE "None"

\* The final fit of lines 126-131.
FinalFitSkipped(model) == model
FinalFit(model) == FitAll(model, "full")

NoTrain == [has_coords |-> FALSE, n_samples |-> 0, cv_kind |-> "none", n_groups |-> 0,
            fold |-> 0, scores |-> NoScores]
NoCall == [op |-> "none", outcome |-> "none", invoked |-> FALSE]

ClfInit ==
    /\ clf_pc = "idle"
    /\ clf_model_type = "xgboost"
    /\ clf_config = [use_spatial_cv |-> TRUE, cv_folds |-> 2, n_spatial_clusters |-> 2]
    /\ clf_model = NoModel
    /\ clf_train = NoTrain
    /\ clf_trained = 0
    /\ clf_result = <<>>
    /\ clf_last = NoCall

\* AquiferClassifier(model_type, config): an unknown type raises in
\* _initialize_model, and no object comes to exist.
ClfNew ==
    /\ AllIdle
    /\ \E mt \in ModelTypes, cfg \in ClfConfigs :
        /\ clf_model_type' = mt
        /\ clf_config' = cfg
        /\ IF mt \in SupportedTypes
           THEN clf_pc' = "ready" /\ clf_model' = InitializeModel(mt)
           ELSE clf_pc' = "raised" /\ clf_model' = NoModel
    /\ UNCHANGED <<clf_train, clf_trained, clf_result, clf_last>>
    /\ UNCHANGED clf_others

\* train(X, y, coordinates) down to the cross-validation (lines 86-123):
\* into the spatial loop, or through cross_val_score, which fits clones and
\* leaves self.model alone, or past both for an ensemble. KMeans and
\* StratifiedKFold raise when there are fewer samples than splits.
ClfTrain ==
    /\ clf_pc = "ready"
    /\ clf_trained < MaxTrains
    /\ \E has_coords \in BOOLEAN, n \in {1, MaxFolds} :
        LET spatial == UseSpatial(clf_config, has_coords)
            kind == IF spatial THEN "spatial"
                    ELSE IF clf_model_type # "ensemble" THEN "stratified" ELSE "none"
            k == IF spatial THEN SpatialSplits(clf_config) ELSE clf_config.cv_folds
        IN  /\ clf_train' = [has_coords |-> has_coords, n_samples |-> n, cv_kind |-> kind,
                             n_groups |-> IF kind = "none" THEN 0 ELSE k,
                             fold |-> 0,
                             scores |-> IF kind = "spatial" THEN Scores(0)
                                        ELSE IF kind = "stratified" /\ n >= k THEN Scores(k)
                                        ELSE NoScores]
            /\ clf_pc' = IF kind # "none" /\ n < k THEN "raised"
                         ELSE IF spatial THEN "cv" ELSE "final"
    /\ clf_result' = <<>>
    /\ UNCHANGED <<clf_model_type, clf_config, clf_model, clf_trained, clf_last>>
    /\ UNCHANGED clf_others

\* One pass of the spatial loop (lines 99-113): the model is fitted on the
\* fold's training part and scored on the rest.
ClfCvFold ==
    /\ clf_pc = "cv"
    /\ clf_train.fold < clf_train.n_groups
    /\ clf_model' = FitAll(clf_model, "fold")
    /\ clf_train' = [clf_train EXCEPT !.fold = @ + 1, !.scores = Scores(@.n + 1)]
    /\ UNCHANGED <<clf_pc, clf_model_type, clf_config, clf_trained, clf_result, clf_last>>
    /\ UNCHANGED clf_others

\* The spatial loop is exhausted.
ClfCvEnd ==
    /\ clf_pc = "cv"
    /\ clf_train.fold >= clf_train.n_groups
    /\ clf_pc' = "final"
    /\ UNCHANGED <<clf_model_type, clf_config, clf_model, clf_train, clf_trained,
                   clf_result, clf_last>>
    /\ UNCHANGED clf_others

\* The final fit and the return (lines 125-141).
ClfFinal ==
    /\ clf_pc = "final"
    /\ clf_model' = FinalFit(clf_model)
    /\ clf_result' = [cv_accuracy_mean |-> Metric(clf_train.scores),
                      cv_accuracy_std |-> Metric(clf_train.scores)]
    /\ clf_trained' = clf_trained + 1
    /\ clf_pc' = "ready"
    /\ UNCHANGED <<clf_model_type, clf_config, clf_train, clf_last>>
    /\ UNCHANGED clf_others

\* predict(X) or predict_proba(X): the guard on self.model, then the
\* underlying estimators, which raise NotFittedError when unfitted.
ClfPredict ==
    /\ clf_pc = "ready"
    /\ \E op \in {"predict", "predict_proba"} :
        clf_last' =
            IF clf_model.is_none
            THEN [op |-> op, outcome |-> "ValueError: Model not trained", invoked |-> FALSE]
            ELSE IF \E e \in DOMAIN clf_model.fits : clf_model.fits[e] = "unfitted"
                 THEN [op |-> op, outcome |-> "NotFittedError", invoked |-> TRUE]
                 ELSE [op |-> op, outcome |-> "returned", invoked |-> TRUE]
    /\ UNCHANGED <<clf_pc, clf_model_type, clf_config, clf_model, clf_train, clf_trained,
                   clf_result>>
    /\ UNCHANGED clf_others

ClfNext == ClfNew \/ ClfTrain \/ ClfCvFold \/ ClfCvEnd \/ ClfFinal \/ ClfPredict


\* ---------------------------------------------------------------------
\* DataPreprocessor.fill_missing (src/modules/preprocessing/preprocessor.py)

\* Grid values: missing, two finite values, and the two infinities, which
\* np.isnan does not count as missing.
PreCells == {NaN, Num(1), Num(4), Inf(1), Inf(-1)}
PreShapes == {s \in (1 .. PreDim) \X (1 .. PreDim) : s[1] * s[2] <= PreMaxCells}
PreGrids ==
    UNION {{[rows |-> s[1], cols |-> s[2], v |-> f] : f \in [Cells(s[1], s[2]) -> PreCells]} :
           s \in PreShapes}

\* PreprocessingConfig.fill_method
DefaultFillMethod == "interpolate"

\* The method argument: None, the empty string, three names with a 2-D
\* branch of their own and one without.
MethodArgs == {"None", "", "interpolate", "mean", "median", "forward"}

\* method or self.config.fill_method
MethodOrDefault(method) ==
    IF method \in {"None", ""} THEN DefaultFillMethod ELSE method

\* ~np.isnan(data) and its complement, as sets of positions
ValidMask(g) == {x \in DOMAIN g.v : ~IsNaN(g.v[x])}
MissingPoints(g) == DOMAIN g.v \ ValidMask(g)

\* np.nanmean(data): the mean of the entries that are not NaN; NaN when
\* there is none, NaN when infinities of both signs are summed, the infinity
\* when only one sign occurs, else sum / count kept unevaluated.
NanMean(g) ==
    LET valid == ValidMask(g)
        nums == {x \in valid : ~IsInf(g.v[x])}
        signs == {g.v[x].n : x \in valid \ nums}
    IN  IF valid = {} THEN NaN
        ELSE IF Cardinality(signs) > 1 THEN NaN
        ELSE IF signs # {} THEN Inf(CHOOSE s \in signs : TRUE)
        ELSE Sym("ratio", SumOver(g.v, nums), Cardinality(valid))

\* The order of the floats that are not NaN: -inf < finite < +inf.
Less(a, b) ==
    \/ IsInf(a) /\ a.n < 0 /\ ~(IsInf(b) /\ b.n < 0)
    \/ IsInf(b) /\ b.n > 0 /\ ~(IsInf(a) /\ a.n > 0)
    \/ ~IsInf(a) /\ ~IsInf(b) /\ a.n < b.n

\* The entry at index k of the sorted valid entries.
KthSmallest(g, valid, k) ==
    CHOOSE c \in {g.v[x] : x \in valid} :
        /\ Cardinality({x \in valid : Less(g.v[x], c)}) <= k
        /\ k < Cardinality({x \in valid : ~Less(c, g.v[x])})

\* The mean of the two middle entries.
MeanOfTwo(a, b) ==
    IF IsInf(a) /\ IsInf(b) THEN (IF a.n = b.n THEN a ELSE NaN)
    ELSE IF IsInf(a) THEN a
    ELSE IF IsInf(b) THEN b
    ELSE Sym("ratio", a.n + b.n, 2)

\* np.nanmedian(data): the median of the entries that are not NaN.
NanMedian(g) ==
    LET valid == ValidMask(g)
        n == Cardinality(valid)
    IN  IF n = 0 THEN NaN
        ELSE IF n % 2 = 1 THEN KthSmallest(g, valid, n \div 2)
        ELSE MeanOfTwo(KthSmallest(g, valid, (n \div 2) - 1),
                       KthSmallest(g, valid, n \div 2))

\* np.where(np.isnan(data), fill_value, data)
WhereNaN(g, fill_value) ==
    [g EXCEPT !.v = [x \in DOMAIN g.v |-> IF IsNaN(g.v[x]) THEN fill_value ELSE g.v[x]]]

\* griddata(valid_points, valid_values, missing_points, method='nearest'):
\* each missing point takes the value of a valid point at the least
\* distance; which one among equally near points is left to the k-d tree.
Dist2(x, y) == (x[1] - y[1]) * (x[1] - y[1]) + (x[2] - y[2]) * (x[2] - y[2])
Nearest(g, m) ==
    {p \in ValidMask(g) : \A q \in ValidMask(g) : Dist2(m, p) <= Dist2(m, q)}

\* _interpolate_2d(data): the grids it can return.
Interpolate2d(g) ==
    IF ValidMask(g) = {} \/ MissingPoints(g) = {} THEN {g}
    ELSE {[g EXCEPT !.v = [x \in DOMAIN g.v |->
                              IF x \in MissingPoints(g) THEN g.v[h[x]] ELSE g.v[x]]] :
          h \in {f \in [MissingPoints(g) -> ValidMask(g)] :
                   \A m \in MissingPoints(g) : f[m] \in Nearest(g, m)}}

\* The 2-D branch of fill_missing: the grids it can return.
FillMissing2d(g, method) ==
    IF method = "interpolate" THEN Interpolate2d(g)
    ELSE IF method = "mean" THEN {WhereNaN(g, NanMean(g))}
    ELSE IF method = "median" THEN {WhereNaN(g, NanMedian(g))}
    ELSE {WhereNaN(g, NanMean(g))}

PreInit ==
    /\ pre_pc = "idle"
    /\ pre_data = NoGrid
    /\ pre_method = "None"
    /\ pre_filled = NoGrid

\* fill_missing(data, method) on a 2-D array
FillMissing ==
    /\ AllIdle
    /\ \E g \in PreGrids, method \in MethodArgs :
        /\ pre_data' = g
        /\ pre_method' = method
        /\ pre_filled' \in FillMissing2d(g, MethodOrDefault(method))
    /\ pre_pc' = "returned"
    /\ UNCHANGED pre_others

\* fill_missing(data, method) on an array of one dimension: ValueError
FillMissingUnsupported ==
    /\ AllIdle
    /\ \E g \in {h \in PreGrids : h.rows = 1}, method \in MethodArgs :
        /\ pre_data' = g
        /\ pre_method' = method
    /\ pre_filled' = NoGrid
    /\ pre_pc' = "raised"
    /\ UNCHANGED pre_others

PreNext == FillMissing \/ FillMissingUnsupported


\* ---------------------------------------------------------------------
\* RechargeForecaster (src/modules/modeling/recharge_forecaster.py)

ForecasterTypes == {"lstm", "tft"}
DefaultSequenceLength == 12
DefaultForecastHorizon == 1

\* Training series, each long enough for one training and one validation
\* window; a trained network and a fitted scaler are named after the series
\* they were fitted on.
TrainingSeries == {"series_a", "series_b"}
NotFitted == "not_fitted"
NoForecaster == "None"

\* Paths handed to save and load: with a directory part and without one.
SavePaths == {"models/forecaster.pkl", "forecaster.pkl"}
HasDirname(filepath) == filepath = "models/forecaster.pkl"

\* RechargeForecaster.__init__
NewForecaster(model_type) ==
    [model_type |-> model_type,
     model |-> NoForecaster,
     scaler |-> NotFitted,
     sequence_length |-> DefaultSequenceLength,
     forecast_horizon |-> DefaultForecastHorizon]

\* The dictionary save() hands to joblib.dump.
ModelData(o) ==
    [model_state |-> o.model,
     model_type |-> o.model_type,
     scaler |-> o.scaler,
     sequence_length |-> o.sequence_length,
     forecast_horizon |-> o.forecast_horizon]

\* What load() builds from the dictionary read back: a new instance, then
\* the scaler and the two lengths; model_state is not read.
Loaded(model_data) ==
    [NewForecaster(model_data.model_type) EXCEPT
        !.scaler = model_data.scaler,
        !.sequence_length = model_data.sequence_length,
        !.forecast_horizon = model_data.forecast_horizon]

NoFcCall == [op |-> "none", obj |-> 0, outcome |-> "none"]

FcInit ==
    /\ fc_pc = "idle"
    /\ forecasters = <<>>
    /\ fc_disk = <<>>
    /\ fc_loaded = <<>>
    /\ fc_last = NoFcCall

\* RechargeForecaster(model_type)
FcNew ==
    /\ fc_pc = "live" \/ AllIdle
    /\ Len(forecasters) < MaxForecasters
    /\ \E model_type \in ForecasterTypes :
        forecasters' = Append(forecasters, NewForecaster(model_type))
    /\ fc_last' = [op |-> "new", obj |-> Len(forecasters) + 1, outcome |-> "returned"]
    /\ fc_pc' = "live"
    /\ UNCHANGED <<fc_disk, fc_loaded, fc_others>>

\* train(data): the scaler is fitted before the model type is looked at.
FcTrain ==
    /\ fc_pc = "live"
    /\ \E i \in DOMAIN forecasters, data \in TrainingSeries :
        LET o == forecasters[i]
        IN  IF o.model_type = "lstm"
            THEN /\ forecasters' = [forecasters EXCEPT ![i].scaler = data, ![i].model = data]
                 /\ fc_last' = [op |-> "train", obj |-> i, outcome |-> "returned"]
            ELSE /\ forecasters' = [forecasters EXCEPT ![i].scaler = data]
                 /\ fc_last' = [op |-> "train", obj |-> i, outcome |-> "ValueError: Unknown model type"]
    /\ UNCHANGED <<fc_pc, fc_disk, fc_loaded, fc_others>>

\* forecast(data, horizon)
FcForecast ==
    /\ fc_pc = "live"
    /\ \E i \in DOMAIN forecasters :
        fc_last' = [op |-> "forecast", obj |-> i,
                    outcome |-> IF forecasters[i].model = NoForecaster
                                THEN "ValueError: Model not trained"
                                ELSE "returned"]
    /\ UNCHANGED <<fc_pc, forecasters, fc_disk, fc_loaded, fc_others>>

\* save(filepath): os.makedirs(os.path.dirname(filepath)) raises on the
\* empty directory name of a bare file name.
FcSave ==
    /\ fc_pc = "live"
    /\ \E i \in DOMAIN forecasters, filepath \in SavePaths :
        IF HasDirname(filepath)
        THEN /\ fc_disk' = [p \in DOMAIN fc_disk \cup {filepath} |->
                               IF p = filepath THEN ModelData(forecasters[i]) ELSE fc_disk[p]]
             /\ fc_last' = [op |-> "save", obj |-> i, outcome |-> "returned"]
        ELSE /\ fc_disk' = fc_disk
             /\ fc_last' = [op |-> "save", obj |-> i, outcome |-> "FileNotFoundError"]
    /\ UNCHANGED <<fc_pc, forecasters, fc_loaded, fc_others>>

\* RechargeForecaster.load(filepath)
FcLoad ==
    /\ fc_pc = "live"
    /\ Len(forecasters) < MaxForecasters
    /\ \E filepath \in SavePaths :
        IF filepath \in DOMAIN fc_disk
        THEN /\ forecasters' = Append(forecasters, Loaded(fc_disk[filepath]))
             /\ fc_loaded' = [j \in DOMAIN fc_loaded \cup {Len(forecasters) + 1} |->
                                 IF j = Len(forecasters) + 1 THEN fc_disk[filepath]
                                 ELSE fc_loaded[j]]
             /\ fc_last' = [op |-> "load", obj |-> Len(forecasters) + 1, outcome |-> "returned"]
        ELSE /\ UNCHANGED <<forecasters, fc_loaded>>
             /\ fc_last' = [op |-> "load", obj |-> 0, outcome |-> "FileNotFoundError"]
    /\ UNCHANGED <<fc_pc, fc_disk, fc_others>>

FcNext == FcNew \/ FcTrain \/ FcForecast \/ FcSave \/ FcLoad


\* ---------------------------------------------------------------------
\* The arrays a FeatureEngineer is handed, by reference
\* (src/modules/feature-engineering/feature_engineer.py). The heap maps a
\* reference to the array it holds: the caller's four arrays under the
\* names of their data_dict keys, and whatever the last call allocated. One
\* pixel of each climate array is followed.

InputRefs == {Name(k) : k \in RecognizedKeys}

\* An assignment into the array behind ref, or its allocation.
Store(h, ref, value) ==
    [r \in DOMAIN h \cup {ref} |-> IF r = ref THEN value ELSE h[r]]

\* The caller's arrays alone: what an earlier call returned is dropped.
Inputs(h) == [r \in InputRefs |-> h[r]]

\* np.roll(data, lag, axis=0) returns a new array.
RollTargetInPlace(src, lag) == src
RollTarget(src, lag) == Timed("lag", lag)

\* The loop of create_lag_features from the k-th lag on (lines 433-437).
RECURSIVE LagLoop(_, _, _, _)
LagLoop(h, src, lags, k) ==
    IF k > Len(lags) THEN h
    ELSE LET lag == lags[k]
         IN  IF lag < Cardinality(DOMAIN h[src])
             THEN LET dst == RollTarget(src, lag)
                      rolled == Store(h, dst, Roll(h[src], lag))
                      blanked == Store(rolled, dst, BlankHead(rolled[dst], lag))
                  IN  LagLoop(blanked, src, lags, k + 1)
             ELSE LagLoop(h, src, lags, k + 1)

\* compute_spi on the array behind src (lines 213-264): spi is a new array
\* of zeros, precip_sum a new array or, for a timescale of 1, the argument
\* itself; the pixel loop assigns into spi only, and np.where returns a
\* third array.
SpiOutcomes(pixel_data, dist) ==
    IF Valid(pixel_data) = {} \/ TooFew(Cardinality(Valid(pixel_data)))
    THEN {"skipped"}
    ELSE FitOutcomes(pixel_data, dist)
PrecipSumRef(src, ts) == IF ts > 1 THEN Name("precip_sum") ELSE src
SpiOnHeap(h, src, ts, dist, outcome) ==
    LET zeros == Store(h, Name("spi_zeros"), [t \in DOMAIN h[src] |-> Num(0)])
        summed == IF ts > 1
                  THEN Store(zeros, Name("precip_sum"), RollingSumSeries(h[src], ts))
                  ELSE zeros
        pixel_data == summed[PrecipSumRef(src, ts)]
        looped == Store(summed, Name("spi_zeros"),
                        IF outcome \in {"skipped", "raise"}
                        THEN AllNaNSeries(pixel_data)
                        ELSE Standardize(pixel_data, dist, outcome))
    IN  Store(looped, Name("spi"),
              [t \in DOMAIN pixel_data |-> InfToNaN(looped[Name("spi_zeros")][t])])

\* compute_pet_hargreaves(temperature): temperature + 5, temperature - 5 and
\* the result are new arrays.
PetOnHeap(h, src) == Store(h, Name("pet"), PetSeries(h[src]))

\* precipitation - pet: a new array.
BalanceOnHeap(h, precip_ref, pet_ref) ==
    Store(h, Name("water_balance"),
          [t \in DOMAIN h[precip_ref] |-> WaterBalanceCell(h[precip_ref][t], h[pet_ref][t])])

FrameConfig ==
    [lag_periods |-> DefaultLagPeriods,
     spi_timescales |-> DefaultTimescales,
     spei_timescales |-> DefaultTimescales,
     twi_epsilon |-> TwiEpsilonDefault]

\* The mappings handed to generate_all_features: key to array.
FrameDicts ==
    {[k \in keys |-> Name(k)] :
        keys \in {RecognizedKeys, {"dem"}, {"precipitation", "temperature"}}}

\* The caller's precipitation at the pixel: complete or wholly missing.
FrameSeries == {s \in SeriesSet : Cardinality(Valid(s)) \in {0, MaxTimes}}

\* The lag_periods handed in: None, one lag, two lags of which one is 0,
\* and a lag as long as the series.
FrameLagArgs ==
    {NoneLags, ListOfLags(<<2>>), ListOfLags(<<1, 0>>), ListOfLags(<<MaxTimes>>)}

FrInit ==
    /\ fr_pc = "idle"
    /\ heap = <<>>
    /\ heap_before = <<>>
    /\ fr_config = FrameConfig
    /\ fr_config_before = FrameConfig
    /\ fr_dict = <<>>
    /\ fr_dict_before = <<>>
    /\ fr_op = "none"
    /\ fr_calls = 0

\* FeatureEngineer(config), next to the caller's arrays and mapping.
FrNewEngineer ==
    /\ AllIdle
    /\ \E kind \in {"bowl"}, series \in FrameSeries, temp \in TempSet,
          d \in FrameDicts :
        LET h == [r \in InputRefs |->
                    CASE r = Name("dem") -> DemOf(kind, 2, 2)
                      [] r = Name("flow_accumulation") -> FaOf(3, 2, 2)
                      [] r = Name("precipitation") -> series
                      [] OTHER -> [t \in Times |-> temp]]
        IN  /\ heap' = h
            /\ heap_before' = h
            /\ fr_dict' = d
            /\ fr_dict_before' = d
    /\ fr_pc' = "ready"
    /\ fr_op' = "new"
    /\ UNCHANGED <<fr_config, fr_config_before, fr_calls>>
    /\ UNCHANGED fr_others

\* What every call below leaves alone, and the count of calls.
FrCall(op) ==
    /\ fr_pc = "ready"
    /\ fr_calls < MaxCalls
    /\ fr_calls' = fr_calls + 1
    /\ fr_op' = op
    /\ UNCHANGED <<fr_pc, heap_before, fr_config, fr_config_before, fr_dict, fr_dict_before>>
    /\ UNCHANGED fr_others

\* create_lag_features(precipitation, lag_periods)
FrCreateLagFeatures ==
    /\ FrCall("create_lag_features")
    /\ \E arg \in FrameLagArgs :
        heap' = LagLoop(Inputs(heap), Name("precipitation"),
                        OrDefault(arg, fr_config.lag_periods), 1)

\* compute_spi(precipitation, timescale, distribution)
FrComputeSpi ==
    /\ FrCall("compute_spi")
    /\ \E ts \in 1 .. MaxTimescale, dist \in DistributionNames :
        LET src == Name("precipitation")
            pixel_data == IF ts > 1 THEN RollingSumSeries(heap[src], ts) ELSE heap[src]
        IN  \E outcome \in SpiOutcomes(pixel_data, dist) :
                heap' = SpiOnHeap(Inputs(heap), src, ts, dist, outcome)

\* compute_spei(precipitation, temperature, timescale)
FrComputeSpei ==
    /\ FrCall("compute_spei")
    /\ \E ts \in 1 .. MaxTimescale :
        LET h == BalanceOnHeap(PetOnHeap(Inputs(heap), Name("temperature")),
                               Name("precipitation"), Name("pet"))
            src == Name("water_balance")
            pixel_data == IF ts > 1 THEN RollingSumSeries(h[src], ts) ELSE h[src]
        IN  \E outcome \in SpiOutcomes(pixel_data, "normal") :
                heap' = SpiOnHeap(h, src, ts, "normal", outcome)

\* compute_pet_hargreaves(temperature)
FrComputePet ==
    /\ FrCall("compute_pet_hargreaves")
    /\ heap' = PetOnHeap(Inputs(heap), Name("temperature"))

\* compute_temporal_statistics(precipitation): five new arrays
FrComputeStatistics ==
    /\ FrCall("compute_temporal_statistics")
    /\ heap' = Store(Inputs(heap), Name("stats"),
                     TemporalStatisticsOf([p \in {0} |-> heap[Name("precipitation")]]))

\* compute_slope_aspect, compute_curvature, compute_tpi and compute_twi on
\* the dem: new arrays from np.gradient, convolve2d and the arithmetic.
FrTerrain ==
    \E op \in {"compute_slope_aspect", "compute_curvature", "compute_tpi", "compute_twi"} :
        /\ FrCall(op)
        /\ LET g == heap[Name("dem")]
               out == CASE op = "compute_slope_aspect" -> SlopeAspectOf(g)
                        [] op = "compute_curvature" -> CurvatureOf(g)
                        [] op = "compute_tpi" -> [tpi |-> TpiOf(g)]
                        [] OTHER -> [twi |-> TwiOf(g, heap[Name("flow_accumulation")],
                                                   fr_config.twi_epsilon)]
           IN  heap' = Store(Inputs(heap), Name(op), out)

\* generate_all_features(data_dict): the operations above on the arrays the
\* mapping holds, their results gathered in a new dictionary.
FrGenerateAllFeatures ==
    /\ FrCall("generate_all_features")
    /\ LET d == [keys |-> DOMAIN fr_dict]
       IN  heap' = Store(Inputs(heap), Name("features"), FeaturesOf(d, fr_config))

FrNext ==
    \/ FrNewEngineer \/ FrCreateLagFeatures \/ FrComputeSpi \/ FrComputeSpei
    \/ FrComputePet \/ FrComputeStatistics \/ FrTerrain \/ FrGenerateAllFeatures

vars == <<cv_vars, pet_vars, tr_vars, spi_vars, roll_vars, spei_vars, lag_vars, gen_vars,
          stat_vars,
          cfg_vars,
          clf_vars,
          pre_vars,
          fc_vars,
          fr_vars>>

Init == CvInit /\ PetInit /\ TrInit /\ SpiInit /\ RollInit /\ SpeiInit /\ LagInit /\ GenInit /\ StatInit
    /\ FrInit
    /\ FcInit
    /\ PreInit
    /\ ClfInit
    /\ CfgInit

SpecCV == Init /\ [][CvNext]_vars

SpecPET == Init /\ [][PetNext]_vars

SpecTerrain == Init /\ [][TrNext]_vars

SpecSPI == Init /\ [][SpiNext]_vars

SpecLag == Init /\ [][LagNext]_vars

SpecGen == Init /\ [][GenNext]_vars

SpecStat == Init /\ [][StatNext]_vars

SpecConstruct == Init /\ [][CfgNext]_vars

SpecClf == Init /\ [][ClfNext]_vars

SpecPre == Init /\ [][PreNext]_vars

SpecForecaster == Init /\ [][FcNext]_vars

SpecFrame == Init /\ [][FrNext]_vars

\* The whole library: any operation may be called.
Next == CvNext \/ PetNext \/ TrNext \/ SpiNext \/ LagNext \/ GenNext \/ StatNext
    \/ CfgNext
    \/ ClfNext
    \/ PreNext
    \/ FcNext
    \/ FrNext

Spec == Init /\ [][Next]_vars

\* ================================================================ claims
\* ---- SpatialCV (SpecCV)
NIdx == NSamples(coordinates)
Elems(seq) == {seq[p] : p \in DOMAIN seq}
NoRepeats(seq) == \A p, q \in DOMAIN seq : seq[p] = seq[q] => p = q

\* How many times sample j occurs in the test_indices of the folds yielded.
TestOccurrences(j) ==
    Cardinality({x \in (DOMAIN folds) \X (0 .. (NIdx - 1)) :
                   /\ (x[2] + 1) \in DOMAIN folds[x[1]].test
                   /\ folds[x[1]].test[x[2] + 1] = j})

\* C1: once split has yielded all of its folds, every sample index 0..n-1
\* occurs in the test_indices of exactly one fold, once, and the test
\* indices hold nothing but sample indices.
C1_TestFoldsPartition ==
    cv_pc = "done" =>
        /\ \A j \in 0 .. (NIdx - 1) : TestOccurrences(j) = 1
        /\ \A f \in DOMAIN folds : Elems(folds[f].test) \subseteq 0 .. (NIdx - 1)

\* C1 witness: an exhausted split over three samples in which two folds have
\* a non-empty test set.
C1_Witness ==
    /\ cv_pc = "done"
    /\ NIdx = 3
    /\ \E f, g \in DOMAIN folds :
         f # g /\ folds[f].test # <<>> /\ folds[g].test # <<>>

\* C2: the folds come in cluster-id order, never more than n_splits of them
\* and exactly n_splits once the generator is exhausted; the i-th fold's
\* test_indices are exactly the samples labelled i, its train_indices exactly
\* the others, so the two are disjoint and together cover 0..n-1.
C2_FoldsFollowClusters ==
    /\ Len(folds) <= n_splits
    /\ cv_pc = "done" => Len(folds) = n_splits
    /\ \A f \in DOMAIN folds :
         /\ Elems(folds[f].test) = {j \in 0 .. (NIdx - 1) : cluster_labels[j] = f - 1}
         /\ Elems(folds[f].train) = {j \in 0 .. (NIdx - 1) : cluster_labels[j] # f - 1}
         /\ NoRepeats(folds[f].test) /\ NoRepeats(folds[f].train)
         /\ Elems(folds[f].test) \cap Elems(folds[f].train) = {}
         /\ Elems(folds[f].test) \cup Elems(folds[f].train) = 0 .. (NIdx - 1)

\* C2 witness: an exhausted split with at least two folds, one of which has
\* both a non-empty test set and a non-empty train set.
C2_Witness ==
    /\ cv_pc = "done"
    /\ n_splits >= 2
    /\ Len(folds) = n_splits
    /\ \E f \in DOMAIN folds : folds[f].test # <<>> /\ folds[f].train # <<>>

\* ---- PET (SpecPET)
\* C7, as claimed: compute_pet_hargreaves returns a number >= 0, never
\* missing, at every cell for finite temperatures, t_max < t_min included.
C7_PetNonNegativeEverywhere ==
    pet_pc = "returned" =>
        \A c \in DOMAIN pet : pet[c].k = "num" /\ pet[c].n >= 0

\* ---- terrain (SpecTerrain)
\* C8, as claimed: on a constant elevation grid compute_curvature returns 0
\* at every cell of the profile, plan and total grids.
C8_FlatCurvatureAllZero ==
    (tr_op = "curvature" /\ tr_pc = "returned" /\ IsFlat(dem)) =>
        \A x \in DOMAIN dem.v :
            /\ tr_out.profile.v[x] = Num(0)
            /\ tr_out.plan.v[x] = Num(0)
            /\ tr_out.total.v[x] = Num(0)

\* ln(1 / epsilon): the logarithm with flow accumulation 0 and no slope.
LnOneOverEps == Sym("ln", 1, 0)

FaAllZero == \A x \in DOMAIN flow_accumulation.v : flow_accumulation.v[x] = 0

\* C9: on a constant elevation grid (two or more rows and columns)
\* compute_slope_aspect returns slope 0 at every cell, and compute_twi with
\* flow accumulation 0 everywhere and a positive epsilon returns
\* ln(1 / epsilon) at every cell, none missing.
C9_FlatSlopeZeroTwiConstant ==
    /\ (tr_op = "slope_aspect" /\ IsFlat(dem) /\ ~GradientRaises(dem)) =>
          /\ tr_pc = "returned"
          /\ SameShape(tr_out.slope, dem)
          /\ \A x \in DOMAIN dem.v : tr_out.slope.v[x] = Num(0)
    /\ (tr_op = "twi" /\ IsFlat(dem) /\ ~GradientRaises(dem) /\ FaAllZero
          /\ SameShape(dem, flow_accumulation) /\ twi_epsilon > 0) =>
          /\ tr_pc = "returned"
          /\ SameShape(tr_out.twi, dem)
          /\ \A x \in DOMAIN dem.v :
               tr_out.twi.v[x] = LnOneOverEps /\ ~IsNaN(tr_out.twi.v[x])

\* C9 witness: compute_twi has returned on the largest flat grid with flow
\* accumulation 0 and the default epsilon, ln(1 / epsilon) in a corner cell.
C9_Witness ==
    /\ tr_op = "twi" /\ tr_pc = "returned"
    /\ IsFlat(dem) /\ dem.rows = MaxDim /\ dem.cols = MaxDim
    /\ dem.v[<<0, 0>>] = 1000 /\ cell_size = CellSizeDefault
    /\ SameShape(dem, flow_accumulation) /\ FaAllZero
    /\ twi_epsilon = TwiEpsilonDefault
    /\ tr_out.twi.v[<<MaxDim - 1, MaxDim - 1>>] = LnOneOverEps

\* C10, as claimed: compute_twi raises for every dem and flow_accumulation
\* whose shapes differ.
C10_TwiRaisesOnEveryShapeMismatch ==
    (tr_op = "twi" /\ ~SameShape(dem, flow_accumulation)) => tr_pc = "raised"

\* ---- compute_spi (SpecSPI)
AllMissing(series) == \A t \in DOMAIN series : IsNaN(series[t])
NValid(series) == Cardinality(Valid(series))

\* What pixel p's output must be, from that pixel's own rolled series and
\* what its own pass of the loop did, whatever happened at any other pixel.
OwnOutput(p) ==
    IF spi_log[p] \in {"all_nan", "too_few", "raise"}
    THEN AllNaNSeries(precip_sum[p])
    ELSE LET z == Standardize(precip_sum[p], distribution, spi_log[p])
         IN  IF spi_pc = "returned" THEN [t \in DOMAIN z |-> InfToNaN(z[t])] ELSE z

\* C3: a failure inside the try block at one pixel makes that pixel missing
\* at every time step and touches nothing else: the grid stays full (every
\* pixel, every time step), every pixel the loop has passed holds the output
\* its own series gives, and the pixels not reached yet are untouched.
C3_FailureStaysLocal ==
    spi_pc \in {"loop", "returned"} =>
        /\ DOMAIN spi = Pixels
        /\ \A p \in Pixels : DOMAIN spi[p] = Times
        /\ \A p \in DOMAIN spi_log :
             /\ spi_log[p] = "raise" => AllMissing(spi[p])
             /\ spi[p] = OwnOutput(p)
        /\ \A p \in Pixels \ DOMAIN spi_log : \A t \in Times : spi[p][t] = Num(0)

\* C3 witness: the call has returned; the fit failed at the last pixel, and
\* the first pixel, fitted before it, still holds a standardized value.
C3_Witness ==
    /\ spi_pc = "returned"
    /\ spi_log[SpiPixels - 1] = "raise"
    /\ spi_log[0] = "interior"
    /\ AllMissing(spi[SpiPixels - 1])
    /\ \E t \in Times : spi[0][t].k = "probit"

\* C4: a pixel whose series after the rolling sum is all missing, or has
\* fewer than 10 values, is missing at every time step and was never fitted.
C4_TooFewIsMissingUnfitted ==
    \A p \in DOMAIN spi_log :
        NValid(precip_sum[p]) < MinValid =>
            /\ AllMissing(spi[p])
            /\ spi_log[p] \in {"all_nan", "too_few"}

\* C4 witness: the call has returned with timescale > 1, having skipped one
\* pixel that is all missing and one whose rolled series has more values
\* than its input but still fewer than 10.
C4_Witness ==
    /\ spi_pc = "returned"
    /\ timescale > 1
    /\ \E p, q \in Pixels :
         /\ spi_log[p] = "all_nan" /\ AllMissing(spi[p])
         /\ spi_log[q] = "too_few" /\ AllMissing(spi[q])
         /\ NValid(precip_sum[q]) > NValid(precipitation[q])

\* C5, as claimed: for every timescale, a pixel whose input series holds
\* fewer than 10 non-missing observations is missing at every time step.
C5_FewObservationsIsMissing ==
    \A p \in DOMAIN spi_log :
        NValid(precipitation[p]) < MinValid => AllMissing(spi[p])

\* A series with a value at every time step, the same one throughout.
ConstantSeries(series) ==
    /\ Valid(series) = DOMAIN series
    /\ \A t, u \in DOMAIN series : series[t].n = series[u].n

\* C6, as claimed: a pixel whose input series is constant (at least 10
\* values, no variance) is missing at every time step when compute_spi
\* returns.
C6_ConstantSeriesIsMissing ==
    spi_pc = "returned" =>
        \A p \in Pixels :
            (ConstantSeries(precipitation[p]) /\ NValid(precipitation[p]) >= MinValid)
                => AllMissing(spi[p])

\* ---- create_lag_features (SpecLag)
RequestedLags == {lag_periods.list[x] : x \in DOMAIN lag_periods.list}

\* C11: for a series of shape [T, R, C] and every requested lag L with
\* 0 < L < T, the grid returned under lag_L has the input's shape, is missing
\* at the time indices 0..L-1, and at every index i >= L holds the input's
\* value at i - L.
C11_LagShiftsBack ==
    lag_pc = "returned" =>
        \A L \in RequestedLags :
            (lag_periods.given /\ 0 < L /\ L < NTimes(lag_data)) =>
                /\ L \in DOMAIN lag_features
                /\ DOMAIN lag_features[L] = DOMAIN lag_data
                /\ \A p \in DOMAIN lag_data :
                     /\ DOMAIN lag_features[L][p] = DOMAIN lag_data[p]
                     /\ \A i \in DOMAIN lag_data[p] :
                          lag_features[L][p][i] =
                              IF i < L THEN NaN ELSE lag_data[p][i - L]

\* C11 happens: a lag of 2 on a series of 4 values, none of the last two
\* missing, so that the roll did bring values round to the front.
C11_Witness ==
    /\ lag_pc = "returned"
    /\ lag_periods.given /\ 2 \in RequestedLags
    /\ NTimes(lag_data) = 4
    /\ ~IsNaN(lag_data[0][2]) /\ ~IsNaN(lag_data[0][3])
    /\ 2 \in DOMAIN lag_features
    /\ IsNaN(lag_features[2][0][1])
    /\ lag_features[2][0][3] = lag_data[0][1]

\* C12, as claimed: for every list of requested lags, the empty one
\* included, the call returns and the returned keys are exactly the lags of
\* the list that are below the series length.
C12_KeysAreRequestedLags ==
    (lag_pc # "idle" /\ lag_periods.given) =>
        /\ lag_pc = "returned"
        /\ DOMAIN lag_features = {L \in RequestedLags : L < NTimes(lag_data)}

\* ---- the rolling sum (SpecSPI)
\* The sum of the non-missing values of series at the indices lo..hi, and
\* how many there are, walking the indices upwards.
RECURSIVE WindowSum(_, _, _)
WindowSum(series, lo, hi) ==
    IF lo > hi THEN 0
    ELSE (IF IsNaN(series[lo]) THEN 0 ELSE series[lo].n) + WindowSum(series, lo + 1, hi)
RECURSIVE WindowCount(_, _, _)
WindowCount(series, lo, hi) ==
    IF lo > hi THEN 0
    ELSE (IF IsNaN(series[lo]) THEN 0 ELSE 1) + WindowCount(series, lo + 1, hi)

\* The rolled entry at index i as the claim words it; a window holding no
\* non-missing input gives a missing entry.
WindowEntry(series, w, i) ==
    LET lo == Max(0, i - w + 1)
    IN  IF WindowCount(series, lo, i) = 0 THEN NaN ELSE Num(WindowSum(series, lo, i))
WindowSums(data, w) ==
    [p \in DOMAIN data |-> [i \in DOMAIN data[p] |-> WindowEntry(data[p], w, i)]]

\* C13: the rolling sum with window w >= 1 gives at every index i the sum of
\* the non-missing inputs at max(0, i-w+1)..i, partial windows at the start
\* included; with w = 1 it returns the input; and compute_spi with timescale
\* 1 fits and standardizes the input as it is, with a larger timescale the
\* rolled input.
C13_RollingSumIsWindowSum ==
    /\ roll_pc = "returned" =>
         /\ roll_out = WindowSums(roll_data, roll_window)
         /\ roll_window = 1 => roll_out = roll_data
    /\ spi_pc # "idle" =>
         /\ timescale = 1 => precip_sum = precipitation
         /\ precip_sum = WindowSums(precipitation, timescale)
         /\ \A p \in DOMAIN spi_log : \A t \in Times :
              (spi_log[p] = "interior" /\ ~IsNaN(precip_sum[p][t])) =>
                  spi[p][t] = Sym("probit", WindowEntry(precipitation[p], timescale, t).n, 1)

\* C13 happens: a window of 2 over a series with a gap, where one entry is
\* the sum of two inputs and another the single input left in its window.
C13_Witness ==
    /\ roll_pc = "returned"
    /\ roll_window = 2
    /\ \E p \in Pixels : \E i, j \in Times :
         /\ i >= 1 /\ j >= 1
         /\ ~IsNaN(roll_data[p][i]) /\ ~IsNaN(roll_data[p][i - 1])
         /\ roll_data[p][i].n > 0
         /\ roll_out[p][i] = Num(roll_data[p][i].n + roll_data[p][i - 1].n)
         /\ IsNaN(roll_data[p][j]) /\ ~IsNaN(roll_data[p][j - 1])
         /\ roll_out[p][j] = roll_data[p][j - 1]

\* ---- generate_all_features (SpecGen)
Present(k) == k \in data_dict.keys

\* The feature names the claim lists for the keys present.
ClaimedNames ==
    (IF Present("dem") THEN TerrainNames ELSE {})
    \cup (IF Present("dem") /\ Present("flow_accumulation") THEN {Name("twi")} ELSE {})
    \cup (IF Present("precipitation")
          THEN TimedNames("spi", gen_config.spi_timescales) \cup StatNames ELSE {})
    \cup (IF Present("precipitation") /\ Present("temperature")
          THEN TimedNames("spei", gen_config.spei_timescales) \cup BalanceNames ELSE {})

\* C14: for every subset of the recognized keys, the names returned by
\* generate_all_features are exactly the terrain names iff dem is present,
\* twi iff dem and flow_accumulation are, spi_t per configured timescale and
\* the precipitation statistics iff precipitation is, and spei_t per
\* configured timescale, pet and water_balance iff precipitation and
\* temperature both are.
C14_NamesFollowKeys ==
    gen_pc = "returned" => DOMAIN features = ClaimedNames

\* C14 happens: temperature without precipitation, next to a dem with its
\* flow accumulation, returns the terrain names and twi and nothing else.
C14_Witness ==
    /\ gen_pc = "returned"
    /\ data_dict.keys = {"dem", "flow_accumulation", "temperature"}
    /\ DOMAIN features = TerrainNames \cup {Name("twi")}

\* C15, as claimed: whenever temperature is present the returned dictionary
\* holds pet, whether or not precipitation is present.
C15_PetWheneverTemperature ==
    (gen_pc = "returned" /\ Present("temperature")) => Name("pet") \in DOMAIN features

\* ---- the distribution argument (SpecSPI)
\* C16, as claimed: compute_spi called with a distribution name other than
\* 'gamma' or 'normal' raises; it never goes on to compute or return a grid.
C16_UnknownDistributionRaises ==
    (spi_pc # "idle" /\ distribution \notin {"gamma", "normal"}) => spi_pc = "raised"

\* ---- compute_temporal_statistics (SpecStat)
\* The statistics of the non-missing entries of a series that has some.
ValidMean(series) == Sym("ratio", SumOver(series, Valid(series)), NValid(series))
ValidStd(series) ==
    LET n == NValid(series)
        sy == SumOver(series, Valid(series))
        syy == SumFn([t \in Valid(series) |-> series[t].n * series[t].n], Valid(series))
    IN  Sym("sqrt_ratio", n * syy - sy * sy, n * n)
ValidMin(series) == series[MinOf(series, Valid(series))]
ValidMax(series) == series[MaxOf(series, Valid(series))]

\* C17, as claimed: for every pixel with at least one non-missing time step
\* the returned mean, std, min and max are those of the non-missing time
\* steps, and are not missing.
C17_StatisticsIgnoreMissing ==
    stat_pc = "returned" =>
        \A p \in DOMAIN stat_data :
            NValid(stat_data[p]) >= 1 =>
                /\ stats_dict.mean[p] = ValidMean(stat_data[p])
                /\ stats_dict.std[p] = ValidStd(stat_data[p])
                /\ stats_dict.min[p] = ValidMin(stat_data[p])
                /\ stats_dict.max[p] = ValidMax(stat_data[p])

\* The least-squares slope of the valid points against their time indices,
\* from the centred sums: Sxy / Sxx with Sxy = sum (n t - sum t)(n y - sum y)
\* and Sxx = sum (n t - sum t)^2.
CentredSxy(series) ==
    LET v == Valid(series)
        n == Cardinality(v)
        st == SumFn([t \in v |-> t], v)
        sy == SumOver(series, v)
    IN  SumFn([t \in v |-> (n * t - st) * (n * series[t].n - sy)], v)
CentredSxx(series) ==
    LET v == Valid(series)
        n == Cardinality(v)
        st == SumFn([t \in v |-> t], v)
    IN  SumFn([t \in v |-> (n * t - st) * (n * t - st)], v)

\* C18: the trend of a pixel is non-missing exactly when the pixel has at
\* least 3 non-missing time points, it is then the least-squares slope over
\* those points against their time indices, and the trend grid has the
\* input's spatial shape.
C18_TrendNeedsThreePoints ==
    stat_pc = "returned" =>
        /\ DOMAIN stats_dict.trend = DOMAIN stat_data
        /\ \A p \in DOMAIN stat_data :
             /\ ~IsNaN(stats_dict.trend[p]) <=> NValid(stat_data[p]) >= 3
             /\ NValid(stat_data[p]) >= 3 =>
                  /\ stats_dict.trend[p].d > 0
                  /\ stats_dict.trend[p].n * CentredSxx(stat_data[p])
                        = CentredSxy(stat_data[p]) * stats_dict.trend[p].d

\* C18 happens: a pixel with exactly 3 valid points out of 4 and a rising
\* line through them.
C18_Witness ==
    /\ stat_pc = "returned"
    /\ \E p \in DOMAIN stat_data :
         /\ Cardinality(DOMAIN stat_data[p]) = 4
         /\ NValid(stat_data[p]) = 3
         /\ ~IsNaN(stats_dict.trend[p])
         /\ stats_dict.trend[p].n > 0

\* ---- infinities (Spec)
NoInfSeriesGrid(grid) == \A p \in DOMAIN grid : \A t \in DOMAIN grid[p] : ~IsInf(grid[p][t])

\* C19: no grid returned by compute_spi, compute_spei or compute_twi holds an
\* infinite value, whatever the input and the configured epsilon.
C19_NoInfinityReturned ==
    /\ spi_pc = "returned" => NoInfSeriesGrid(spi)
    /\ spei_pc = "returned" => NoInfSeriesGrid(spei)
    /\ (tr_op = "twi" /\ tr_pc = "returned") =>
         \A x \in DOMAIN tr_out.twi.v : ~IsInf(tr_out.twi.v[x])

\* C19 happens: compute_spei has returned and a pixel whose largest value had
\* a CDF of 1, hence a probit of +infinity, is missing there and not
\* elsewhere.
C19_Witness ==
    /\ spei_pc = "returned"
    /\ \E p \in Pixels :
         /\ spi_log[p] = "at_max"
         /\ \E t, u \in Times :
              /\ ~IsNaN(precip_sum[p][t]) /\ IsNaN(spei[p][t])
              /\ ~IsNaN(spei[p][u])

\* ---- terrain on small grids (SpecTerrain)
NoMissing(g) == \A x \in DOMAIN g.v : ~IsNaN(g.v[x])

\* C20, as claimed: for every elevation grid without missing data (every dem
\* here is one: its cells are whole elevations), of any number of rows and
\* columns from 1 up, compute_slope_aspect and compute_tpi return, every
\* output grid has the input's shape and no output cell is missing.
C20_SlopeAspectTpiTotal ==
    (tr_op \in {"slope_aspect", "tpi"} /\ dem.rows >= 1 /\ dem.cols >= 1) =>
        /\ tr_pc = "returned"
        /\ \A nm \in DOMAIN tr_out :
             SameShape(tr_out[nm], dem) /\ NoMissing(tr_out[nm])

\* ---- construction (SpecConstruct)
\* C21, as claimed: constructing a FeatureEngineer, with or without an
\* explicit configuration, leaves the file system as it was.
C21_ConstructionLeavesDiskAlone ==
    [][Len(engineers') > Len(engineers) => fs' = fs]_vars

\* ---- SpatialCV run twice (SpecCV)
\* C22: a second split with equal coordinates, n_splits and random_state
\* yields the same (train_indices, test_indices) pairs in the same order as
\* the first, whatever X either run was given.
C22_SplitReproducible ==
    cv_run = 2 =>
        /\ cv_pc # "raised"
        /\ Len(folds) <= Len(cv_first.folds)
        /\ \A f \in DOMAIN folds : folds[f] = cv_first.folds[f]
        /\ cv_pc = "done" => folds = cv_first.folds

\* C22 happens: the second run is exhausted, it was given another X than the
\* first, and two of its folds have a non-empty test set.
C22_Witness ==
    /\ cv_run = 2
    /\ cv_pc = "done"
    /\ cv_X # cv_first.X
    /\ \E f, g \in DOMAIN folds :
         f # g /\ folds[f].test # <<>> /\ folds[g].test # <<>>

\* ---- AquiferClassifier (SpecClf)
TrainReturned == clf_pc = "ready" /\ clf_trained >= 1

\* C23, as claimed: the spatial cross-validation inside train uses as many
\* groups as the n_spatial_clusters option says.
C23_GroupsAreSpatialClusters ==
    clf_train.cv_kind = "spatial" => clf_train.n_groups = clf_config.n_spatial_clusters

\* C25: whatever the model type and whether or not coordinates are given,
\* the dictionary train returns has the keys cv_accuracy_mean and
\* cv_accuracy_std; both are numbers when a cross-validation was run and
\* None exactly for an ensemble trained without spatial cross-validation.
C25_MetricsAlwaysKeyed ==
    TrainReturned =>
        /\ DOMAIN clf_result = {"cv_accuracy_mean", "cv_accuracy_std"}
        /\ \A key \in DOMAIN clf_result :
             /\ clf_result[key] \in {"number", "None"}
             /\ clf_result[key] = "number" <=> clf_train.cv_kind # "none"
             /\ clf_result[key] = "None" <=>
                    (clf_model_type = "ensemble"
                     /\ ~(clf_config.use_spatial_cv /\ clf_train.has_coords))

\* C25 happens: an ensemble trained without coordinates has returned None
\* under both keys.
C25_Witness ==
    /\ TrainReturned
    /\ clf_model_type = "ensemble" /\ ~clf_train.has_coords
    /\ clf_result.cv_accuracy_mean = "None" /\ clf_result.cv_accuracy_std = "None"

\* C27: spatial cross-validation is used exactly when use_spatial_cv is set
\* and coordinates are given, and when train returns every estimator was
\* last fitted on the full (X, y), whichever path was taken.
C27_LastFitIsFull ==
    /\ clf_train.n_samples > 0 =>
         (clf_train.cv_kind = "spatial"
            <=> (clf_config.use_spatial_cv /\ clf_train.has_coords))
    /\ TrainReturned =>
         /\ ~clf_model.is_none
         /\ \A e \in DOMAIN clf_model.fits : clf_model.fits[e] = "full"

\* C27 happens: train has returned after a spatial loop that fitted both
\* estimators of an ensemble on fold subsets.
C27_Witness ==
    /\ TrainReturned
    /\ clf_model_type = "ensemble"
    /\ clf_train.cv_kind = "spatial" /\ clf_train.scores.n >= 2
    /\ \A e \in {"rf", "xgb"} : clf_model.fits[e] = "full"

\* C28, as claimed: predict and predict_proba on a classifier never trained
\* are stopped by the guard on self.model, before any estimator is invoked.
C28_GuardStopsUntrained ==
    (clf_last.op # "none" /\ clf_trained = 0) =>
        /\ clf_last.outcome = "ValueError: Model not trained"
        /\ ~clf_last.invoked

\* ---- no requested output omitted (SpecLag)

\* The lags the call works through: lag_periods or self.config.lag_periods.
EffectiveLags ==
    LET l == OrDefault(lag_periods, DefaultLagPeriods)
    IN  {l[x] : x \in DOMAIN l}

\* C24, as claimed: every lag the caller asks for has an entry in the
\* returned dictionary, whether or not it can be computed on the series.
C24_EveryLagHasEntry ==
    lag_pc = "returned" => EffectiveLags \subseteq DOMAIN lag_features

\* ---- fill_missing (SpecPre)

CountMissing(g) == Cardinality({x \in DOMAIN g.v : IsNaN(g.v[x])})

\* C26, as claimed: fill_missing on a 2-D array returns an array of the same
\* shape, and when the input has at least one missing and at least one valid
\* value the result has strictly fewer missing values, for every method name.
C26_FillReducesMissing ==
    pre_pc = "returned" =>
        /\ SameShape(pre_filled, pre_data)
        /\ (MissingPoints(pre_data) # {} /\ ValidMask(pre_data) # {}) =>
               CountMissing(pre_filled) < CountMissing(pre_data)

\* The same on grids holding no infinity of either sign.
FillReducesMissingOnFinite ==
    (pre_pc = "returned" /\ \A x \in DOMAIN pre_data.v : ~IsInf(pre_data.v[x])) =>
        /\ SameShape(pre_filled, pre_data)
        /\ (MissingPoints(pre_data) # {} /\ ValidMask(pre_data) # {}) =>
               CountMissing(pre_filled) = 0

\* ---- save and load of a forecaster (SpecForecaster)

\* C30, as claimed: an instance read back with load from the file of a
\* trained forecaster carries the saved model, scaler, sequence_length and
\* forecast_horizon, and forecast on it does not fail with 'Model not
\* trained'.
C30_LoadedIsUsable ==
    [][/\ (fc_last'.op = "load" /\ fc_last'.outcome = "returned") =>
              LET o == forecasters'[fc_last'.obj]
                  d == fc_loaded'[fc_last'.obj]
              IN  d.model_state # NoForecaster =>
                      /\ o.model = d.model_state
                      /\ o.scaler = d.scaler
                      /\ o.sequence_length = d.sequence_length
                      /\ o.forecast_horizon = d.forecast_horizon
       /\ (/\ fc_last'.op = "forecast"
           /\ fc_last'.obj \in DOMAIN fc_loaded
           /\ fc_loaded[fc_last'.obj].model_state # NoForecaster) =>
              fc_last'.outcome # "ValueError: Model not trained"]_vars

\* What load does carry over: the scaler and the two lengths, next to a
\* model that is None.
LoadCarriesScalerOnly ==
    \A j \in DOMAIN fc_loaded :
        (fc_last.op = "load" /\ fc_last.obj = j) =>
            /\ forecasters[j].model = NoForecaster
            /\ forecasters[j].scaler = fc_loaded[j].scaler
            /\ forecasters[j].sequence_length = fc_loaded[j].sequence_length
            /\ forecasters[j].forecast_horizon = fc_loaded[j].forecast_horizon

\* ---- inputs and configuration are left alone (SpecFrame)

\* C29: after any sequence of FeatureEngineer calls the arrays and the
\* mapping handed in and the configuration equal their values before the
\* calls; create_lag_features writes its missing markers into the copy it
\* returns.
C29_InputsUntouched ==
    fr_pc = "ready" =>
        /\ \A r \in InputRefs : heap[r] = heap_before[r]
        /\ fr_dict = fr_dict_before
        /\ fr_config = fr_config_before
        /\ fr_op = "create_lag_features" =>
               \A r \in DOMAIN heap \ InputRefs :
                   \A t \in DOMAIN heap[r] :
                       (t < r.t /\ ~IsNaN(heap_before[Name("precipitation")][t])) =>
                           /\ IsNaN(heap[r][t])
                           /\ ~IsNaN(heap[Name("precipitation")][t])

\* C29 happens: a second call, create_lag_features with a lag of 2, has
\* returned a grid whose first two entries are missing while the input's
\* first entry is still a value.
C29_Witness ==
    /\ fr_calls = 2
    /\ fr_op = "create_lag_features"
    /\ Timed("lag", 2) \in DOMAIN heap
    /\ IsNaN(heap[Timed("lag", 2)][0])
    /\ IsNaN(heap[Timed("lag", 2)][1])
    /\ ~IsNaN(heap[Name("precipitation")][0])

====
